---- MODULE Spec2Model ----
(***************************************************************************)
(* A model of pyjupiter: the Ultra API clients (sync and async), their     *)
(* response classifier, the order -> sign -> execute pipeline and the      *)
(* signer.                                                                 *)
(*                                                                         *)
(* Python values are records tagged by their type in field t, so that      *)
(* values of different Python types can be compared.  An exception is a    *)
(* record tagged by its class in field type.                               *)
(***************************************************************************)
EXTENDS Integers, Sequences, FiniteSets, TLC

(***************************************************************************)
(* Python values                                                           *)
(***************************************************************************)
None == [t |-> "none"]
Bool(b) == [t |-> "bool", b |-> b]
Num(n) == [t |-> "int", n |-> n]
Str(s) == [t |-> "str", s |-> s]
List(items) == [t |-> "list", items |-> items]
Dict(d) == [t |-> "dict", d |-> d]
Float(text) == [t |-> "float", text |-> text]
Bytes(b) == [t |-> "bytes", b |-> b]
EmptyMap == [k \in {} |-> None]

\* The sequence with the elements of the function f on 1..n.
AsSeq(f) == SubSeq(f, 1, Len(f))

\* A string whose text is the base64 encoding of the non-empty byte string
\* bytes (base64.b64encode(...).decode("utf-8")).
B64Str(bytes) == [t |-> "str", b64 |-> bytes]

\* bool(v): Python truthiness.
Truthy(v) ==
    CASE v.t = "none" -> FALSE
      [] v.t = "bool" -> v.b
      [] v.t = "int" -> v.n # 0
      [] v.t = "str" -> IF "s" \in DOMAIN v THEN v.s # "" ELSE TRUE
      [] v.t = "list" -> Len(v.items) > 0
      [] v.t = "dict" -> DOMAIN v.d # {}
      [] OTHER -> TRUE

\* type(v).__name__
TypeName(v) ==
    CASE v.t = "none" -> "NoneType"
      [] OTHER -> v.t

\* The texts used as JSON string bodies, with the substring relation
\* between them ("errorMessage" does not contain "message": capital M).
StrContains(s, sub) ==
    \/ s = sub
    \/ <<s, sub>> \in {<<"errorMessage: boom", "errorMessage">>,
                       <<"a message", "message">>}

\* key in v, for the v on which the operator is defined (str, list, dict).
In(key, v) ==
    CASE v.t = "dict" -> key \in DOMAIN v.d
      [] v.t = "list" -> \E i \in 1..Len(v.items) : v.items[i] = Str(key)
      [] v.t = "str" -> IF "s" \in DOMAIN v THEN StrContains(v.s, key) ELSE FALSE
      [] OTHER -> FALSE

\* key in v raises TypeError for a value that is not a container.
InRaises(v) == v.t \in {"none", "bool", "int"}

(***************************************************************************)
(* Messages and exceptions                                                 *)
(***************************************************************************)
\* A literal message, and an f-string with one interpolated value.
Lit(text) == [text |-> text]
Fmt(text, arg) == [text |-> text, arg |-> arg]

\* An exception that is not one of the package's own.
PyError(type, message) == [type |-> type, message |-> message]

JupiterAPIError(message, status_code, response_data) ==
    [type |-> "JupiterAPIError", message |-> message, status_code |-> status_code,
     response_data |-> IF Truthy(response_data) THEN response_data ELSE Dict(EmptyMap)]

JupiterNetworkError(message, original_error) ==
    [type |-> "JupiterNetworkError", message |-> message, original_error |-> original_error]

JupiterRateLimitError(message, retry_after, status_code, response_data) ==
    [type |-> "JupiterRateLimitError", message |-> message, status_code |-> status_code,
     response_data |-> IF Truthy(response_data) THEN response_data ELSE Dict(EmptyMap),
     retry_after |-> retry_after]

JupiterValidationError(message, field, value) ==
    [type |-> "JupiterValidationError", message |-> message, field |-> field, value |-> value]

JupiterAuthenticationError(message, status_code, response_data) ==
    [type |-> "JupiterAuthenticationError", message |-> message, status_code |-> status_code,
     response_data |-> IF Truthy(response_data) THEN response_data ELSE Dict(EmptyMap)]

\* The base class of an exception class: the class statements of the
\* package; every other exception of the model derives from Exception
\* without passing through a class of the package.
BaseOf(type) ==
    CASE type = "JupiterAPIError" -> "JupiterError"
      [] type = "JupiterNetworkError" -> "JupiterError"
      [] type = "JupiterValidationError" -> "JupiterError"
      [] type = "JupiterRateLimitError" -> "JupiterAPIError"
      [] type = "JupiterAuthenticationError" -> "JupiterAPIError"
      [] OTHER -> "Exception"

\* isinstance(e, class) for an exception e of class type.
RECURSIVE IsInstance(_, _)
IsInstance(type, class) ==
    \/ type = class
    \/ type # "Exception" /\ IsInstance(BaseOf(type), class)

\* The outcome of a call: a returned value or a raised exception.
Return(v) == [kind |-> "return", value |-> v]
Raise(e) == [kind |-> "raise", exc |-> e]

(***************************************************************************)
(* int(text) on a header value, a sequence of characters                   *)
(***************************************************************************)
Digits == <<"0", "1", "2", "3", "4", "5", "6", "7", "8", "9">>
IsDigit(c) == \E i \in 1..10 : Digits[i] = c
DigitValue(c) == (CHOOSE i \in 1..10 : Digits[i] = c) - 1

RECURSIVE StripLeft(_)
StripLeft(cs) ==
    IF Len(cs) > 0 /\ Head(cs) = " " THEN StripLeft(Tail(cs)) ELSE cs

RECURSIVE StripRight(_)
StripRight(cs) ==
    IF Len(cs) > 0 /\ cs[Len(cs)] = " " THEN StripRight(SubSeq(cs, 1, Len(cs) - 1)) ELSE cs

Strip(cs) == StripRight(StripLeft(cs))

RECURSIVE DigitsValue(_)
DigitsValue(cs) ==
    IF Len(cs) = 0 THEN 0
    ELSE 10 * DigitsValue(SubSeq(cs, 1, Len(cs) - 1)) + DigitValue(cs[Len(cs)])

\* The unsigned part of an integer literal.
Magnitude(cs) ==
    IF Len(cs) > 0 /\ Head(cs) \in {"+", "-"} THEN Tail(cs) ELSE cs

\* int(cs) raises ValueError unless cs, stripped, is an optional sign
\* followed by at least one digit.
IntRaises(cs) ==
    LET m == Magnitude(Strip(cs))
    IN  Len(m) = 0 \/ \E i \in 1..Len(m) : ~IsDigit(m[i])

IntOf(cs) ==
    LET s == Strip(cs)
        v == DigitsValue(Magnitude(s))
    IN  IF Len(s) > 0 /\ Head(s) = "-" THEN 0 - v ELSE v

(***************************************************************************)
(* The transport's response (curl_cffi Response)                           *)
(***************************************************************************)
\* A response: its status code, its headers (a map from lower-case header
\* name to the characters of the value) and its body: json() either
\* returns body.json or raises json.JSONDecodeError.
Response(status_code, headers, body) ==
    [status_code |-> status_code, headers |-> headers, body |-> body]

JsonBody(v) == [parses |-> TRUE, json |-> v]
BadBody == [parses |-> FALSE]

JSONDecodeError == PyError("JSONDecodeError", Lit("Expecting value: line 1 column 1 (char 0)"))

\* response.raise_for_status() raises an HTTPError (a RequestsError that
\* carries the response) unless Response.ok, which curl_cffi defines as
\* 200 <= status_code < 400.
RaiseForStatusRaises(response) ==
    ~(200 <= response.status_code /\ response.status_code < 400)

\* e.response.headers.get("retry-after")
HasRetryAfter(response) == "retry-after" \in DOMAIN response.headers

\* retry_after when the header is looked up under a name the map does not hold.
RetryAfter_WrongHeaderName(response) == None
\* retry_after as computed for a 429: None unless the header is present,
\* non-empty and accepted by int().
RetryAfter(response) ==
    IF ~HasRetryAfter(response) THEN None
    ELSE LET retry_after_header == response.headers["retry-after"]
         IN  IF Len(retry_after_header) = 0 THEN None
             ELSE IF IntRaises(retry_after_header) THEN None
             ELSE Num(IntOf(retry_after_header))

\* response_data in the except RequestsError branch: {} unless
\* e.response.json() succeeds.
ErrorResponseData(response) ==
    IF response.body.parses THEN response.body.json ELSE Dict(EmptyMap)

\* The else branch of the status dispatch: the message of the generic
\* JupiterAPIError, or the TypeError raised while looking for it.
GenericApiError(status_code, response_data) ==
    LET generic == Fmt("HTTP {} error", status_code)
        NotIterable == PyError("TypeError", Fmt("argument of type '{}' is not iterable",
                                                   Str(TypeName(response_data))))
        BadIndex == PyError("TypeError", Fmt("{} indices must be integers",
                                                Str(TypeName(response_data))))
    IN  IF ~Truthy(response_data)
        THEN Raise(JupiterAPIError(generic, status_code, response_data))
        ELSE IF InRaises(response_data) THEN Raise(NotIterable)
        ELSE IF In("errorMessage", response_data)
        THEN IF response_data.t = "dict"
             THEN Raise(JupiterAPIError(response_data.d["errorMessage"], status_code, response_data))
             ELSE Raise(BadIndex)
        ELSE IF In("message", response_data)
        THEN IF response_data.t = "dict"
             THEN Raise(JupiterAPIError(response_data.d["message"], status_code, response_data))
             ELSE Raise(BadIndex)
        ELSE Raise(JupiterAPIError(generic, status_code, response_data))

\* The status dispatch without its 403 branch.
HandleHttpError_No403(response) ==
    LET status_code == Num(response.status_code)
        response_data == ErrorResponseData(response)
    IN  IF response.status_code = 401
        THEN Raise(JupiterAuthenticationError(
                 Lit("Authentication failed: Invalid API key or unauthorized access"),
                 status_code, response_data))
        ELSE IF response.status_code = 429
        THEN Raise(JupiterRateLimitError(
                 Lit("Rate limit exceeded. Please try again later."),
                 RetryAfter(response), status_code, response_data))
        ELSE GenericApiError(status_code, response_data)

\* The except RequestsError branch of _handle_response.
HandleHttpError(response) ==
    LET status_code == Num(response.status_code)
        response_data == ErrorResponseData(response)
    IN  IF response.status_code = 401
        THEN Raise(JupiterAuthenticationError(
                 Lit("Authentication failed: Invalid API key or unauthorized access"),
                 status_code, response_data))
        ELSE IF response.status_code = 403
        THEN Raise(JupiterAuthenticationError(
                 Lit("Access forbidden: Insufficient permissions"),
                 status_code, response_data))
        ELSE IF response.status_code = 429
        THEN Raise(JupiterRateLimitError(
                 Lit("Rate limit exceeded. Please try again later."),
                 RetryAfter(response), status_code, response_data))
        ELSE GenericApiError(status_code, response_data)

\* Variants of the try block of _handle_response: the in-band check made
\* before the shape check (in_band_first), made on the truth of the value
\* instead of the presence of the key (truthy_only), and a body reporting
\* status "Failed" raised as an error (failed_raises).
HandleResponseVariant(response, in_band_first, truthy_only, failed_raises) ==
    IF RaiseForStatusRaises(response) THEN HandleHttpError(response)
    ELSE IF ~response.body.parses
    THEN Raise(JupiterNetworkError(Fmt("Network error occurred: {}", JSONDecodeError.message),
                                   JSONDecodeError))
    ELSE LET response_data == response.body.json
             in_band == IF truthy_only
                        THEN /\ response_data.t = "dict"
                             /\ "errorMessage" \in DOMAIN response_data.d
                             /\ Truthy(response_data.d["errorMessage"])
                        ELSE In("errorMessage", response_data)
             api_error == JupiterAPIError(Fmt("API Error: {}", response_data),
                                          Num(response.status_code), response_data)
         IN  IF in_band_first /\ in_band THEN Raise(api_error)
             ELSE IF response_data.t # "dict"
             THEN Raise(JupiterValidationError(
                      Lit("Invalid response format: expected JSON object"),
                      None, Str(TypeName(response_data))))
             ELSE IF in_band THEN Raise(api_error)
             ELSE IF failed_raises /\ "status" \in DOMAIN response_data.d
                                   /\ response_data.d["status"] = Str("Failed")
             THEN Raise(api_error)
             ELSE Return(response_data)
HandleResponse_TruthyErrorMessage(response) == HandleResponseVariant(response, FALSE, TRUE, FALSE)
HandleResponse_InBandFirst(response) == HandleResponseVariant(response, TRUE, FALSE, FALSE)
HandleResponse_FailedStatusRaises(response) == HandleResponseVariant(response, FALSE, FALSE, TRUE)

\* _handle_response reporting an unparsable success body as a validation
\* error.
HandleResponse_BadJsonIsValidation(response) ==
    IF ~RaiseForStatusRaises(response) /\ ~response.body.parses
    THEN Raise(JupiterValidationError(Lit("Invalid response format: expected JSON object"),
                                      None, None))
    ELSE HandleResponseVariant(response, FALSE, FALSE, FALSE)

\* _handle_response, the same code in UltraApiClient and AsyncUltraApiClient.
HandleResponse(response) ==
    IF RaiseForStatusRaises(response) THEN HandleHttpError(response)
    ELSE IF ~response.body.parses
    THEN Raise(JupiterNetworkError(Fmt("Network error occurred: {}", JSONDecodeError.message),
                                   JSONDecodeError))
    ELSE LET response_data == response.body.json
         IN  IF response_data.t # "dict"
             THEN Raise(JupiterValidationError(
                      Lit("Invalid response format: expected JSON object"),
                      None, Str(TypeName(response_data))))
             ELSE IF "errorMessage" \in DOMAIN response_data.d
             THEN Raise(JupiterAPIError(Fmt("API Error: {}", response_data.d["errorMessage"]),
                                        Num(response.status_code), response_data))
             ELSE Return(response_data)

\* AsyncUltraApiClient._handle_response with the status code of its API
\* errors left out.
AsyncHandleResponse_StatusDropped(response) ==
    LET handled == HandleResponse(response)
    IN  IF handled.kind = "raise" /\ "status_code" \in DOMAIN handled.exc
        THEN Raise([handled.exc EXCEPT !.status_code = None])
        ELSE handled

\* AsyncUltraApiClient._handle_response.
AsyncHandleResponse(response) ==
    IF RaiseForStatusRaises(response)
    THEN LET status_code == Num(response.status_code)
             response_data == ErrorResponseData(response)
         IN  CASE response.status_code = 401 ->
                    Raise(JupiterAuthenticationError(
                        Lit("Authentication failed: Invalid API key or unauthorized access"),
                        status_code, response_data))
               [] response.status_code = 403 ->
                    Raise(JupiterAuthenticationError(
                        Lit("Access forbidden: Insufficient permissions"),
                        status_code, response_data))
               [] response.status_code = 429 ->
                    Raise(JupiterRateLimitError(
                        Lit("Rate limit exceeded. Please try again later."),
                        RetryAfter(response), status_code, response_data))
               [] OTHER -> GenericApiError(status_code, response_data)
    ELSE IF ~response.body.parses
    THEN Raise(JupiterNetworkError(Fmt("Network error occurred: {}", JSONDecodeError.message),
                                   JSONDecodeError))
    ELSE IF response.body.json.t # "dict"
    THEN Raise(JupiterValidationError(Lit("Invalid response format: expected JSON object"),
                                      None, Str(TypeName(response.body.json))))
    ELSE IF "errorMessage" \in DOMAIN response.body.json.d
    THEN Raise(JupiterAPIError(Fmt("API Error: {}", response.body.json.d["errorMessage"]),
                               Num(response.status_code), response.body.json))
    ELSE Return(response.body.json)

\* self._handle_response(response) on a client of either kind.
HandleResponseOf(self, response) ==
    IF self.kind = "async" THEN AsyncHandleResponse(response) ELSE HandleResponse(response)

(***************************************************************************)
(* Key material                                                            *)
(***************************************************************************)
\* Length of a keypair encoding accepted by solders Keypair.from_bytes:
\* 32 bytes of secret followed by 32 bytes of public key.
KeypairLen == 64
SecretLen == 32

\* The value of the environment variable named by private_key_env_var, as
\* the structure of its text:
\*   [set |-> FALSE]                      the variable is not set
\*   [set |-> TRUE, pad, core]            pad: surrounded by whitespace
\*     core.form = "blank"                no other character
\*     core.form = "array"                "[" ... "]"; core.json is the JSON
\*                                        body between them, parsed or not
\*     core.form = "base58"               anything else; core.decodes tells
\*                                        whether base58.b58decode accepts it
Unset == [set |-> FALSE]
Text(pad, core) == [set |-> TRUE, pad |-> pad, core |-> core]
Blank == [form |-> "blank"]
ArrayText(json) == [form |-> "array", json |-> json]
Base58Text(bytes) == [form |-> "base58", decodes |-> TRUE, bytes |-> bytes]
BadBase58Text == [form |-> "base58", decodes |-> FALSE]

\* isinstance(x, int) and 0 <= x <= 255; a bool is an int in Python.
IsUint8(x) ==
    CASE x.t = "int" -> 0 <= x.n /\ x.n <= 255
      [] x.t = "bool" -> TRUE
      [] OTHER -> FALSE

\* bytes(arr) for a list of uint8 entries.
ByteOf(x) == IF x.t = "bool" THEN (IF x.b THEN 1 ELSE 0) ELSE x.n
BytesOfList(items) == AsSeq([i \in 1..Len(items) |-> ByteOf(items[i])])

\* The entries that fail the uint8 test, in order.
RECURSIVE InvalidValues(_)
InvalidValues(items) ==
    IF Len(items) = 0 THEN <<>>
    ELSE IF IsUint8(Head(items)) THEN InvalidValues(Tail(items))
    ELSE <<Head(items)>> \o InvalidValues(Tail(items))

FirstFive(items) == SubSeq(items, 1, IF Len(items) < 5 THEN Len(items) ELSE 5)

\* _load_private_key_bytes with the environment value pk_raw; field is
\* self.private_key_env_var.
LoadPrivateKeyBytes(pk_raw, field) ==
    IF ~pk_raw.set \/ (pk_raw.core.form = "blank" /\ ~pk_raw.pad)
    THEN Raise(JupiterValidationError(
             Fmt("Private key not found in environment variable '{}'", Str(field)),
             Str(field), None))
    ELSE IF pk_raw.core.form = "blank"
    THEN Raise(JupiterValidationError(
             Fmt("Private key is empty in environment variable '{}'", Str(field)),
             Str(field), Str("")))
    ELSE IF pk_raw.core.form = "array"
    THEN IF ~pk_raw.core.json.parses
         THEN Raise(JupiterValidationError(
                  Fmt("Invalid JSON format in private key uint8 array: {}", JSONDecodeError.message),
                  Str(field), Str("pk_raw")))
         ELSE LET arr == pk_raw.core.json.json
              IN  IF Len(arr.items) = 0
                  THEN Raise(JupiterValidationError(
                           Lit("Private key uint8 array cannot be empty"), Str(field), arr))
                  ELSE IF \E i \in 1..Len(arr.items) : ~IsUint8(arr.items[i])
                  THEN Raise(JupiterValidationError(
                           Fmt("Private key uint8 array contains invalid values: {}...",
                               List(FirstFive(InvalidValues(arr.items)))),
                           Str(field), List(FirstFive(InvalidValues(arr.items)))))
                  ELSE Return(BytesOfList(arr.items))
    ELSE IF ~pk_raw.core.decodes
    THEN Raise(JupiterValidationError(
             Fmt("Invalid base58 private key format: {}", Lit("Invalid character")),
             Str(field), Str("pk_raw")))
    ELSE IF Len(pk_raw.core.bytes) = 0
    THEN Raise(JupiterValidationError(
             Fmt("Invalid base58 private key format: {}",
                 Lit("Private key base58 decoded to empty bytes")),
             Str(field), Str("pk_raw")))
    ELSE Return(pk_raw.core.bytes)

\* Keypair.from_bytes(raw): ValueError unless raw has KeypairLen bytes.
KeypairFromBytesRaises(raw) == Len(raw) # KeypairLen
KeypairFromBytes(raw) ==
    [secret |-> SubSeq(raw, 1, SecretLen), pubkey |-> SubSeq(raw, SecretLen + 1, KeypairLen)]
KeypairLengthError == PyError("ValueError", Lit("signature error"))

(***************************************************************************)
(* Transactions (solders VersionedTransaction)                             *)
(***************************************************************************)
\* A message: the account keys and the number of leading keys that must
\* sign.  A transaction: a message and its signature slots.
Message(account_keys, num_required_signatures) ==
    [account_keys |-> account_keys, num_required_signatures |-> num_required_signatures]
Transaction(message, signatures) == [message |-> message, signatures |-> signatures]

\* Signature.default(), and the signature of message by the holder of pubkey.
DefaultSignature == [zero |-> TRUE]
SignatureBy(pubkey, message) == [by |-> pubkey, message |-> message]

\* An element of the signers list is a Signer only if it is a Keypair.
IsKeypair(x) == "secret" \in DOMAIN x

\* list.index(x): the first 0-based position of x, if any.
Contains(seq, x) == \E i \in 1..Len(seq) : seq[i] = x
IndexOf(seq, x) == (CHOOSE i \in 1..Len(seq) : seq[i] = x /\ \A j \in 1..(i - 1) : seq[j] # x) - 1

\* VersionedTransaction(message, keypairs): every element must be a Signer
\* (TypeError otherwise); the signers must be exactly the required signers
\* of the message (SignerError otherwise); the result carries one signature
\* per required signer, in account-key order.
NewVersionedTransaction(message, keypairs) ==
    LET n == message.num_required_signatures
        expected == SubSeq(message.account_keys, 1, n)
    IN  IF \E i \in 1..Len(keypairs) : ~IsKeypair(keypairs[i])
        THEN Raise(PyError("TypeError", Lit("argument 'keypairs': failed to extract enum Signer")))
        ELSE IF Len(message.account_keys) < n
        THEN Raise(PyError("SignerError", Lit("invalid message")))
        ELSE IF Len(keypairs) > n
        THEN Raise(PyError("SignerError", Lit("too many signers")))
        ELSE IF Len(keypairs) < n
        THEN Raise(PyError("SignerError", Lit("not enough signers")))
        ELSE IF \E i \in 1..n : \A j \in 1..Len(keypairs) : keypairs[j].pubkey # expected[i]
        THEN Raise(PyError("SignerError", Lit("keypair-pubkey mismatch")))
        ELSE Return(Transaction(message,
                                AsSeq([i \in 1..n |-> SignatureBy(expected[i], message)])))

\* _sign_versioned_transaction.
SignVersionedTransaction(pk_raw, field, versioned_transaction) ==
    LET loaded == LoadPrivateKeyBytes(pk_raw, field)
    IN  IF loaded.kind = "raise" THEN loaded
        ELSE IF KeypairFromBytesRaises(loaded.value) THEN Raise(KeypairLengthError)
        ELSE LET wallet == KeypairFromBytes(loaded.value)
                 account_keys == versioned_transaction.message.account_keys
             IN  IF ~Contains(account_keys, wallet.pubkey)
                 THEN Raise(PyError("ValueError", Lit("list.index(x): x not in list")))
                 ELSE LET wallet_index == IndexOf(account_keys, wallet.pubkey)
                          signers == versioned_transaction.signatures
                      IN  IF wallet_index >= Len(signers)
                          THEN Raise(PyError("IndexError",
                                             Lit("list assignment index out of range")))
                          ELSE NewVersionedTransaction(
                                   versioned_transaction.message,
                                   [signers EXCEPT ![wallet_index + 1] = wallet])

(***************************************************************************)
(* Base64 and the wire format                                              *)
(***************************************************************************)
\* Byte strings on the wire: no bytes, the serialization of a transaction,
\* or bytes that VersionedTransaction.from_bytes rejects with message err.
EmptyBytes == [k |-> "empty"]
JunkBytes(err) == [k |-> "junk", err |-> err]

\* bytes(versioned_transaction) and VersionedTransaction.from_bytes.
Serialize(tx) == [k |-> "tx", tx |-> tx]
FromBytesRaises(bytes) == bytes.k # "tx"
FromBytes(bytes) == bytes.tx

\* _serialize_versioned_transaction
SerializeVersionedTransaction(versioned_transaction) ==
    B64Str(Serialize(versioned_transaction))

\* base64.b64decode(text) in its default, non-validating mode: characters
\* outside the alphabet are discarded, then the padding is checked.
B64Decode(text) ==
    IF "b64" \in DOMAIN text THEN Return(text.b64)
    ELSE CASE text.s = "!!!!" -> Return(EmptyBytes)
           [] text.s = "a" ->
                Raise(PyError("binascii.Error", Lit("Invalid base64-encoded string")))
           [] OTHER -> Raise(PyError("binascii.Error", Lit("Incorrect padding")))

\* "base64" in str(e).lower() or "invalid" in str(e).lower()
MentionsBase64OrInvalid(e) ==
    e.message.text \in {"Invalid base64-encoded string", "invalid message",
                        "invalid value: integer, expected variant index"}

\* text[:50] + "..." if len(text) > 50 else text; an encoded transaction is
\* longer than 50 characters, the other texts are shorter.
Abbreviate(text) ==
    IF "b64" \in DOMAIN text THEN [t |-> "str", first50of |-> text.b64] ELSE text

\* The except Exception branch of _sign_base64_transaction.
WrapSigningError(e, transaction_base64) ==
    IF MentionsBase64OrInvalid(e)
    THEN JupiterValidationError(Fmt("Invalid base64 transaction format: {}", e.message),
                                Str("transaction"), Abbreviate(transaction_base64))
    ELSE JupiterValidationError(Fmt("Failed to decode/parse transaction: {}", e.message),
                                Str("transaction"), None)

\* _sign_base64_transaction.
SignBase64Transaction(pk_raw, field, transaction_base64) ==
    IF ~Truthy(transaction_base64)
    THEN Raise(JupiterValidationError(Lit("Empty transaction data received from API"),
                                      Str("transaction"), transaction_base64))
    ELSE IF transaction_base64.t # "str"
    THEN Raise(JupiterValidationError(Lit("Transaction data must be a string"),
                                      Str("transaction"), Str(TypeName(transaction_base64))))
    ELSE LET decoded == B64Decode(transaction_base64)
         IN  IF decoded.kind = "raise"
             THEN Raise(WrapSigningError(decoded.exc, transaction_base64))
             ELSE IF decoded.value = EmptyBytes
             THEN Raise(JupiterValidationError(Lit("Transaction base64 decoded to empty bytes"),
                                               Str("transaction"),
                                               Abbreviate(transaction_base64)))
             ELSE IF FromBytesRaises(decoded.value)
             THEN Raise(WrapSigningError(PyError("ValueError", Lit(decoded.value.err)),
                                         transaction_base64))
             ELSE LET signed == SignVersionedTransaction(pk_raw, field, FromBytes(decoded.value))
                  IN  IF signed.kind = "raise" /\ signed.exc.type # "JupiterValidationError"
                      THEN Raise(WrapSigningError(signed.exc, transaction_base64))
                      ELSE signed

(***************************************************************************)
(* Request models                                                          *)
(***************************************************************************)
\* pydantic.alias_generators.to_camel on the field names of the models.
ToCamel(name) ==
    CASE name = "input_mint" -> "inputMint"
      [] name = "output_mint" -> "outputMint"
      [] name = "referral_account" -> "referralAccount"
      [] name = "referral_fee" -> "referralFee"
      [] name = "signed_transaction" -> "signedTransaction"
      [] name = "request_id" -> "requestId"
      [] OTHER -> name

\* to_dict without exclude_none: every field, None included.
ToDict_KeepsNone(model) ==
    [k \in {ToCamel(f) : f \in DOMAIN model} |->
        model[CHOOSE f \in DOMAIN model : ToCamel(f) = k]]

\* BaseModel.to_dict: the fields that are not None, under camelCase keys.
ToDict(model) ==
    LET kept == {f \in DOMAIN model : model[f] # None}
    IN  [k \in {ToCamel(f) : f \in kept} |-> model[CHOOSE f \in kept : ToCamel(f) = k]]

\* UltraOrderRequest(...)
UltraOrderRequest(input_mint, output_mint, amount, taker) ==
    [input_mint |-> input_mint, output_mint |-> output_mint, amount |-> amount,
     taker |-> taker, referral_account |-> None, referral_fee |-> None]

\* UltraExecuteRequest(request_id=..., signed_transaction=...): pydantic
\* rejects a field declared str whose value is not a string.
UltraExecuteRequest(request_id, signed_transaction) ==
    IF request_id.t # "str" \/ signed_transaction.t # "str"
    THEN Raise(PyError("pydantic.ValidationError", Lit("Input should be a valid string")))
    ELSE Return([signed_transaction |-> signed_transaction, request_id |-> request_id])

\* The lookup error of order_response[name] on a response without the key.
MissingField_KeyError(name) == PyError("KeyError", Lit(name))
\* The error for an order response without the key name.
MissingField(name) ==
    JupiterValidationError(Fmt("Order response missing required field: {}", Str(name)),
                           Str(name), None)

\* _prepare_execute_request_from_order without its checks of the order
\* response: the transaction is signed if there is one and the request id
\* defaults to the empty string.
PrepareExecuteRequestFromOrder_Unvalidated(pk_raw, field, order_response) ==
    IF order_response.t # "dict" \/ "transaction" \notin DOMAIN order_response.d
    THEN Raise(PyError("KeyError", Lit("transaction")))
    ELSE LET signed_transaction ==
                 SignBase64Transaction(pk_raw, field, order_response.d["transaction"])
         IN  IF signed_transaction.kind = "raise" THEN signed_transaction
             ELSE UltraExecuteRequest(
                      IF "requestId" \in DOMAIN order_response.d
                      THEN order_response.d["requestId"] ELSE Str(""),
                      SerializeVersionedTransaction(signed_transaction.value))

\* _prepare_execute_request_from_order.
PrepareExecuteRequestFromOrder(pk_raw, field, order_response) ==
    IF order_response.t # "dict"
    THEN Raise(JupiterValidationError(Lit("Invalid order response: expected dictionary"),
                                      None, Str(TypeName(order_response))))
    ELSE IF "requestId" \notin DOMAIN order_response.d
    THEN Raise(MissingField("requestId"))
    ELSE IF "transaction" \notin DOMAIN order_response.d
    THEN Raise(MissingField("transaction"))
    ELSE LET transaction_data == order_response.d["transaction"]
         IN  IF ~Truthy(transaction_data) \/ transaction_data.t # "str"
             THEN Raise(JupiterValidationError(
                      Lit("Order response contains invalid transaction data"),
                      Str("transaction"), transaction_data))
             ELSE LET request_id == order_response.d["requestId"]
                      signed_transaction == SignBase64Transaction(pk_raw, field, transaction_data)
                  IN  IF signed_transaction.kind = "raise" THEN signed_transaction
                      ELSE UltraExecuteRequest(
                               request_id,
                               SerializeVersionedTransaction(signed_transaction.value))

(***************************************************************************)
(* The client                                                              *)
(***************************************************************************)
\* A constructor that chooses the host by api_key is not None.
NewClient_HostByNotNone(kind, api_key, private_key_env_var) ==
    [kind |-> kind, api_key |-> api_key,
     base_url |-> IF api_key # None THEN "https://api.jup.ag" ELSE "https://lite-api.jup.ag",
     private_key_env_var |-> private_key_env_var]

\* _CoreJupiterClient.__init__; kind is "sync" (UltraApiClient) or "async"
\* (AsyncUltraApiClient).
NewClient(kind, api_key, private_key_env_var) ==
    [kind |-> kind, api_key |-> api_key,
     base_url |-> IF Truthy(api_key) THEN "https://api.jup.ag" ELSE "https://lite-api.jup.ag",
     private_key_env_var |-> private_key_env_var]

\* _get_headers
GetHeaders(self) ==
    IF Truthy(self.api_key)
    THEN ("Accept" :> Str("application/json")) @@ ("x-api-key" :> self.api_key)
    ELSE ("Accept" :> Str("application/json"))

BuildOrderUrl(self) == self.base_url \o "/ultra/v1/order"
BuildExecuteUrl(self) == self.base_url \o "/ultra/v1/execute"
BuildBalancesUrl(self, address) == self.base_url \o "/ultra/v1/balances/" \o address
BuildShieldUrl(self) == self.base_url \o "/ultra/v1/shield"

\* A join that puts the identifiers in reverse order.
RECURSIVE Join_Reversed(_)
Join_Reversed(mints) ==
    IF Len(mints) = 0 THEN ""
    ELSE IF Len(mints) = 1 THEN mints[1]
    ELSE Join_Reversed(Tail(mints)) \o "," \o mints[1]

\* ",".join(mints)
RECURSIVE Join(_)
Join(mints) ==
    IF Len(mints) = 0 THEN ""
    ELSE IF Len(mints) = 1 THEN mints[1]
    ELSE mints[1] \o "," \o Join(Tail(mints))

PrepareOrderParams(request) == ToDict(request)
\* The payload as model_dump gives it, the keys left in snake_case.
PrepareExecutePayload_SnakeCase(request) == [f \in DOMAIN request |-> request[f]]
PrepareExecutePayload(request) == ToDict(request)
PrepareShieldParams(mints) == [mints |-> Str(Join(mints))]

\* The requests handed to the transport: self.client.get(url, params=...,
\* headers=...) and self.client.post(url, json=..., headers=...).
Get(url, params, headers) ==
    [method |-> "GET", url |-> url, params |-> params, headers |-> headers]
Post(url, json, headers) ==
    [method |-> "POST", url |-> url, json |-> json, headers |-> headers]

OrderGet(self, request) ==
    Get(BuildOrderUrl(self), PrepareOrderParams(request), GetHeaders(self))
ExecutePost(self, request) ==
    Post(BuildExecuteUrl(self), PrepareExecutePayload(request), GetHeaders(self))
BalancesGet(self, address) ==
    Get(BuildBalancesUrl(self, address), None, GetHeaders(self))
ShieldGet(self, mints) ==
    Get(BuildShieldUrl(self), PrepareShieldParams(mints), GetHeaders(self))

\* The same four requests as AsyncUltraApiClient builds them.
AsyncOrderGet(self, request) ==
    Get(BuildOrderUrl(self), PrepareOrderParams(request), GetHeaders(self))
AsyncExecutePost(self, request) ==
    Post(BuildExecuteUrl(self), PrepareExecutePayload(request), GetHeaders(self))
AsyncBalancesGet(self, address) ==
    Get(BuildBalancesUrl(self, address), None, GetHeaders(self))
AsyncShieldGet(self, mints) ==
    Get(BuildShieldUrl(self), PrepareShieldParams(mints), GetHeaders(self))

\* The first transport request of method op with arguments arg, on the
\* synchronous and on the asynchronous client.
SyncRequest(self, op, arg) ==
    CASE op = "execute" -> ExecutePost(self, arg.request)
      [] op = "balances" -> BalancesGet(self, arg.address)
      [] op = "shield" -> ShieldGet(self, arg.mints)
      [] OTHER -> OrderGet(self, arg.request)
AsyncRequest(self, op, arg) ==
    CASE op = "execute" -> AsyncExecutePost(self, arg.request)
      [] op = "balances" -> AsyncBalancesGet(self, arg.address)
      [] op = "shield" -> AsyncShieldGet(self, arg.mints)
      [] OTHER -> AsyncOrderGet(self, arg.request)
RequestOf(self, op, arg) ==
    IF self.kind = "async" THEN AsyncRequest(self, op, arg) ELSE SyncRequest(self, op, arg)
ExecutePostOf(self, request) ==
    IF self.kind = "async" THEN AsyncExecutePost(self, request) ELSE ExecutePost(self, request)

\* What self.client.get / post delivered, as the synchronous
\* _make_get_request / _make_post_request pass it on.
SyncOutcome(outcome) ==
    IF "raised" \in DOMAIN outcome THEN Raise(outcome.raised)
    ELSE HandleResponse(outcome.response)

\* The synchronous client's method cl.op run with arguments cl.arg, as far
\* as the transport outcomes given allow: where it stands, the requests it
\* issued and its result.
SyncRun(self, pk_raw, cl, outcomes) ==
    LET first == SyncRequest(self, cl.op, cl.arg)
        r1 == SyncOutcome(outcomes[1])
        prepared == PrepareExecuteRequestFromOrder(pk_raw, self.private_key_env_var, r1.value)
        second == ExecutePost(self, prepared.value)
    IN  IF Len(outcomes) = 0
        THEN [pc |-> IF first.method = "GET" THEN "get" ELSE "post",
              sent |-> <<first>>, result |-> [kind |-> "none"]]
        ELSE IF cl.op # "order_and_execute" \/ r1.kind = "raise"
        THEN [pc |-> "done", sent |-> <<first>>, result |-> r1]
        ELSE IF prepared.kind = "raise"
        THEN [pc |-> "done", sent |-> <<first>>, result |-> prepared]
        ELSE IF Len(outcomes) = 1
        THEN [pc |-> "post", sent |-> <<first, second>>, result |-> [kind |-> "none"]]
        ELSE [pc |-> "done", sent |-> <<first, second>>, result |-> SyncOutcome(outcomes[2])]

(***************************************************************************)
(* Bounds and input pools                                                  *)
(***************************************************************************)
\* The largest number of required signers of a transaction.
MaxSigners == 2

\* Key material: the configured wallet, another wallet that signs nothing,
\* the other parties of a transaction and a program account.
KeyBytes(secret, public) ==
    AsSeq([i \in 1..KeypairLen |-> IF i <= SecretLen THEN secret ELSE public])
PubkeyBytes(public) == AsSeq([i \in 1..(KeypairLen - SecretLen) |-> public])
WalletBytes == KeyBytes(1, 2)
StrangerBytes == KeyBytes(5, 6)
WalletPubkey == PubkeyBytes(2)
OtherPubkey(i) == PubkeyBytes(10 + i)
ProgramPubkey == PubkeyBytes(9)

EnvPool ==
    {Unset,
     Text(FALSE, Base58Text(WalletBytes)),
     Text(TRUE, ArrayText(JsonBody(List(AsSeq([i \in 1..KeypairLen |-> Num(WalletBytes[i])]))))),
     Text(FALSE, Base58Text(StrangerBytes)),
     Text(FALSE, Base58Text(SubSeq(WalletBytes, 1, SecretLen)))}

ClientPool ==
    {NewClient(kind, api_key, "PRIVATE_KEY") :
        kind \in {"sync", "async"}, api_key \in {None, Str(""), Str("test_key")}}

\* Transactions with n required signers.  The wallet is the signer at
\* 0-based position k < n, or a non-signing account (k = n), or absent
\* (k = n + 1).  The other signers' slots are empty or already signed.
TxKeys(n, k) ==
    AsSeq([i \in 1..(n + 1) |->
              IF i = k + 1 THEN WalletPubkey
              ELSE IF i <= n THEN OtherPubkey(i)
              ELSE ProgramPubkey])
TxMessage(n, k) == Message(TxKeys(n, k), n)
TxOf(n, k, presigned) ==
    Transaction(TxMessage(n, k),
                AsSeq([i \in 1..n |->
                          IF presigned /\ i # k + 1
                          THEN SignatureBy(TxKeys(n, k)[i], TxMessage(n, k))
                          ELSE DefaultSignature]))
TxPool ==
    {TxOf(n, k, presigned) : n \in 1..MaxSigners, k \in 0..(MaxSigners + 1),
                             presigned \in BOOLEAN}

\* Texts offered as a transaction: encoded transactions, encoded bytes that
\* are no transaction, and texts that are not base64.
JunkPool == {JunkBytes("io error: unexpected end of file"),
             JunkBytes("invalid value: integer, expected variant index")}
TransactionTextPool ==
    {B64Str(Serialize(tx)) : tx \in TxPool} \cup {B64Str(b) : b \in JunkPool}
    \cup {Str("!!!!"), Str("a"), Str("abc")}

\* JSON bodies.
Map1(k1, v1) == k1 :> v1
Map2(k1, v1, k2, v2) == (k1 :> v1) @@ (k2 :> v2)
Map3(k1, v1, k2, v2, k3, v3) == (k1 :> v1) @@ (k2 :> v2) @@ (k3 :> v3)
ScalarBodies ==
    {None, Bool(TRUE), Bool(FALSE), Num(0), Num(5), Str(""), Str("ok"),
     Str("errorMessage: boom"), Str("a message"),
     List(<<>>), List(<<Str("errorMessage")>>), List(<<Str("message")>>), List(<<Num(1)>>)}
PlainObjectBodies ==
    {Dict(EmptyMap),
     Dict(Map1("errorMessage", Str("Insufficient funds"))),
     Dict(Map1("errorMessage", None)),
     Dict(Map1("errorMessage", Str(""))),
     Dict(Map1("message", Str("Not found"))),
     Dict(Map2("errorMessage", Str("Insufficient funds"), "message", Str("Not found"))),
     Dict(Map2("status", Str("Success"), "signature", Str("5sig"))),
     Dict(Map2("status", Str("Failed"), "error", Str("slippage"))),
     Dict(Map3("status", Str("Failed"), "code", Num(4), "error", Str("slippage")))}
OrderObjectBodies ==
    {Dict(Map2("requestId", Str("r1"), "transaction", text)) : text \in TransactionTextPool}
    \cup {Dict(Map2("requestId", rid, "transaction", B64Str(Serialize(TxOf(1, 0, FALSE))))) :
            rid \in {Str(""), Num(7), None}}
    \cup {Dict(Map2("requestId", Str("r1"), "transaction", v)) :
            v \in {Str(""), None, Num(5), List(<<Str("abc")>>)}}
    \cup {Dict(Map1("requestId", Str("r1"))),
          Dict(Map1("transaction", B64Str(Serialize(TxOf(1, 0, FALSE)))))}
BodyPool ==
    {BadBody} \cup {JsonBody(v) : v \in ScalarBodies \cup PlainObjectBodies \cup OrderObjectBodies}

StatusPool == {200, 201, 302, 400, 401, 403, 429, 500}

\* Header maps: with and without retry-after; every status is tried with
\* two of them, 429 with all.
NoHeaders == [h \in {} |-> <<>>]
RetryAfterHeader(cs) == "retry-after" :> cs
HeadersPool ==
    {NoHeaders} \cup {RetryAfterHeader(cs) :
        cs \in {<<>>, <<"3", "0">>, <<"0">>, <<" ", "7">>, <<"-", "5">>,
                <<"1", ".", "5">>, <<"s", "o", "o", "n">>}}
ResponsePool ==
    {Response(sc, h, b) : sc \in StatusPool, h \in {NoHeaders, RetryAfterHeader(<<"3", "0">>)},
                          b \in BodyPool}
    \cup {Response(429, h, b) : h \in HeadersPool, b \in BodyPool}

\* Connection-level failures of the transport (curl_cffi RequestsError and
\* its subclasses; they carry no response).
TransportErrorPool ==
    {[type |-> "RequestsError", message |-> Lit("Failed to connect to host"), response |-> None],
     [type |-> "Timeout", message |-> Lit("Operation timed out"), response |-> None]}

OrderRequestPool ==
    {UltraOrderRequest(Str("So11"), Str("EPjF"), Num(10000000), taker) :
        taker \in {None, Str("Czie")}}
    \cup {[UltraOrderRequest(Str("So11"), Str("EPjF"), Num(10000000), None)
              EXCEPT !.referral_account = Str("Ref1"), !.referral_fee = Num(50)]}
    \cup {UltraOrderRequest(Str("So11"), Str("EPjF"), Num(amount), Str("Czie")) :
            amount \in {0, -1}}
ExecuteRequestPool ==
    {[signed_transaction |-> B64Str(Serialize(TxOf(1, 0, FALSE))), request_id |-> Str("r0")]}
AddressPool == {"Czie"}
MintsPool == {<<>>, <<"m1">>, <<"m1", "m2">>, <<"m2", "m1">>, <<"m1", "m1">>}

\* str(wallet.pubkey()): the base58 text of a public key.
Base58Str(bytes) == [t |-> "str", base58 |-> bytes]

\* get_public_key of a client that keeps the key it loaded first and falls
\* back to it when the environment variable is gone.
GetPublicKey_KeepsLoadedKey(pk_raw, field) ==
    LET loaded == LoadPrivateKeyBytes(pk_raw, field)
    IN  IF loaded.kind = "raise" THEN Return(Base58Str(WalletPubkey))
        ELSE IF KeypairFromBytesRaises(loaded.value) THEN Raise(KeypairLengthError)
        ELSE Return(Base58Str(KeypairFromBytes(loaded.value).pubkey))

\* get_public_key(): the key is loaded from the environment on every call;
\* Keypair.from_bytes is called outside any try block.
GetPublicKey(pk_raw, field) ==
    LET loaded == LoadPrivateKeyBytes(pk_raw, field)
    IN  IF loaded.kind = "raise" THEN loaded
        ELSE IF KeypairFromBytesRaises(loaded.value) THEN Raise(KeypairLengthError)
        ELSE Return(Base58Str(KeypairFromBytes(loaded.value).pubkey))

\* A coroutine object: the result of calling an async def method without
\* awaiting it.
Coroutine(method) == [t |-> "coroutine", method |-> method]

\* await get_public_key_async(): the method returns self.get_public_key(),
\* which AsyncJupiterClient overrides with an async def.
GetPublicKeyAsync(self, pk_raw) ==
    IF self.kind = "async"
    THEN Return(Coroutine("AsyncJupiterClient.get_public_key"))
    ELSE GetPublicKey(pk_raw, self.private_key_env_var)

(***************************************************************************)
(* State                                                                   *)
(***************************************************************************)
VARIABLES
    client,     \* the client object: kind, api_key, base_url, private_key_env_var
    env,        \* the value of the environment variable holding the secret
    pc,         \* "idle", "get" / "post" (awaiting the transport), "done"
    call,       \* the method invoked and its arguments by parameter name
    sent,       \* the transport requests issued by this invocation, in order
    received,   \* the transport outcomes of this invocation, in order
    result,     \* what the invocation delivers to its caller
    tasks,      \* the calls outstanding together on the client, each with its
                \* own pc, call, sent, received and result
    trace       \* the steps order_and_execute has taken, in order, when the
                \* method is followed step by step

vars == <<client, env, pc, call, sent, received, result, tasks, trace>>

NoCall == [op |-> "none"]
NoResult == [kind |-> "none"]
NoArgs == [none |-> TRUE]

Init ==
    /\ client \in ClientPool
    /\ env \in EnvPool
    /\ pc = "idle"
    /\ call = NoCall
    /\ sent = <<>>
    /\ received = <<>>
    /\ result = NoResult
    /\ tasks = <<>>
    /\ trace = <<>>

\* A method that starts with one transport request.
Issue(op, arg, request) ==
    /\ pc = "idle"
    /\ pc' = (IF request.method = "GET" THEN "get" ELSE "post")
    /\ call' = [op |-> op, arg |-> arg]
    /\ sent' = <<request>>
    /\ UNCHANGED <<client, env, received, result, tasks, trace>>

\* order(request) up to self.client.get
order ==
    \E request \in OrderRequestPool :
        Issue("order", [request |-> request], RequestOf(client, "order", [request |-> request]))

\* execute(request) up to self.client.post
execute ==
    \E request \in ExecuteRequestPool :
        Issue("execute", [request |-> request], RequestOf(client, "execute", [request |-> request]))

\* balances(address) up to self.client.get
balances ==
    \E address \in AddressPool :
        Issue("balances", [address |-> address], RequestOf(client, "balances", [address |-> address]))

\* shield(mints) up to self.client.get
shield ==
    \E mints \in MintsPool :
        Issue("shield", [mints |-> mints], RequestOf(client, "shield", [mints |-> mints]))

\* order_and_execute(request) up to the self.client.get of _call_order
order_and_execute ==
    \E request \in OrderRequestPool :
        Issue("order_and_execute", [request |-> request],
              RequestOf(client, "order_and_execute", [request |-> request]))

\* self.client.get / self.client.post raises: the call is made outside any
\* try block of _make_get_request / _make_post_request, so the exception
\* leaves the method as it is.
TransportRaises ==
    /\ pc \in {"get", "post"}
    /\ \E e \in TransportErrorPool :
        /\ received' = Append(received, [raised |-> e])
        /\ result' = Raise(e)
    /\ pc' = "done"
    /\ UNCHANGED <<client, env, call, sent, tasks, trace>>

\* The response step of a client that issues its request again after a 429.
TransportResponds_RetriesRateLimit ==
    /\ pc \in {"get", "post"}
    /\ \E response \in ResponsePool :
        /\ received' = Append(received, [response |-> response])
        /\ IF response.status_code = 429 /\ Len(sent) < 3
           THEN /\ sent' = Append(sent, sent[Len(sent)])
                /\ pc' = pc
                /\ result' = result
           ELSE /\ sent' = sent
                /\ pc' = "done"
                /\ result' = HandleResponse(response)
    /\ UNCHANGED <<client, env, call, tasks, trace>>

\* self.client.get / self.client.post returns a response: the rest of the
\* method runs.  For the order stage of order_and_execute that is
\* _handle_response, _prepare_execute_request_from_order and, if both
\* succeed, execute up to self.client.post.
TransportResponds ==
    /\ pc \in {"get", "post"}
    /\ \E response \in ResponsePool :
        LET handled == HandleResponseOf(client, response)
            prepared == PrepareExecuteRequestFromOrder(env, client.private_key_env_var,
                                                       handled.value)
        IN  /\ received' = Append(received, [response |-> response])
            /\ IF call.op = "order_and_execute" /\ pc = "get" /\ handled.kind = "return"
               THEN IF prepared.kind = "return"
                    THEN /\ sent' = Append(sent, ExecutePostOf(client, prepared.value))
                         /\ pc' = "post"
                         /\ result' = result
                    ELSE /\ result' = prepared
                         /\ pc' = "done"
                         /\ sent' = sent
               ELSE /\ result' = handled
                    /\ pc' = "done"
                    /\ sent' = sent
    /\ UNCHANGED <<client, env, call, tasks, trace>>

\* _sign_versioned_transaction(versioned_transaction), called directly.
sign_versioned_transaction ==
    /\ pc = "idle"
    /\ \E tx \in TxPool :
        /\ call' = [op |-> "_sign_versioned_transaction", arg |-> [versioned_transaction |-> tx]]
        /\ result' = SignVersionedTransaction(env, client.private_key_env_var, tx)
    /\ pc' = "done"
    /\ UNCHANGED <<client, env, sent, received, tasks, trace>>

\* _sign_base64_transaction(transaction_base64), called directly.
sign_base64_transaction ==
    /\ pc = "idle"
    /\ \E text \in TransactionTextPool \cup {Str(""), None, Num(5)} :
        /\ call' = [op |-> "_sign_base64_transaction", arg |-> [transaction_base64 |-> text]]
        /\ result' = SignBase64Transaction(env, client.private_key_env_var, text)
    /\ pc' = "done"
    /\ UNCHANGED <<client, env, sent, received, tasks, trace>>

\* get_public_key(), sync and async (the async override returns
\* super().get_public_key()).
get_public_key ==
    /\ pc = "idle"
    /\ call' = [op |-> "get_public_key", arg |-> NoArgs]
    /\ result' = GetPublicKey(env, client.private_key_env_var)
    /\ pc' = "done"
    /\ UNCHANGED <<client, env, sent, received, tasks, trace>>

\* await get_public_key_async()
get_public_key_async ==
    /\ pc = "idle"
    /\ call' = [op |-> "get_public_key_async", arg |-> NoArgs]
    /\ result' = GetPublicKeyAsync(client, env)
    /\ pc' = "done"
    /\ UNCHANGED <<client, env, sent, received, tasks, trace>>

\* The caller takes the result; the client is ready for the next call.
Finish ==
    /\ pc = "done"
    /\ pc' = "idle"
    /\ call' = NoCall
    /\ sent' = <<>>
    /\ received' = <<>>
    /\ result' = NoResult
    /\ UNCHANGED <<client, env, tasks, trace>>

Next ==
    \/ order
    \/ execute
    \/ balances
    \/ shield
    \/ order_and_execute
    \/ TransportResponds
    \/ TransportRaises
    \/ sign_versioned_transaction
    \/ sign_base64_transaction
    \/ get_public_key
    \/ get_public_key_async
    \/ Finish

Spec == Init /\ [][Next]_vars

(***************************************************************************)
(* Several calls outstanding on one client                                 *)
(***************************************************************************)
\* The number of calls outstanding together on one client.
MaxTasks == 2
Tasks == 1..MaxTasks

ConcurrentEnvPool ==
    {Unset, Text(FALSE, Base58Text(WalletBytes)), Text(FALSE, Base58Text(StrangerBytes))}
ConcurrentClientPool ==
    {NewClient(kind, None, "PRIVATE_KEY") : kind \in {"sync", "async"}}
ConcurrentOrderRequest == UltraOrderRequest(Str("So11"), Str("EPjF"), Num(10000000), Str("Czie"))
ConcurrentTransactionText == B64Str(Serialize(TxOf(1, 0, FALSE)))
ConcurrentCallPool ==
    {[op |-> "order", arg |-> [request |-> ConcurrentOrderRequest]],
     [op |-> "balances", arg |-> [address |-> "Czie"]],
     [op |-> "order_and_execute", arg |-> [request |-> ConcurrentOrderRequest]]}
ConcurrentSecretCallPool ==
    {[op |-> "get_public_key", arg |-> NoArgs],
     [op |-> "_sign_base64_transaction",
      arg |-> [transaction_base64 |-> ConcurrentTransactionText]]}
ConcurrentResponsePool ==
    {Response(200, NoHeaders,
              JsonBody(Dict(Map2("requestId", Str("r1"), "transaction", ConcurrentTransactionText)))),
     Response(200, NoHeaders, JsonBody(Dict(Map2("status", Str("Success"), "signature", Str("5sig"))))),
     Response(429, RetryAfterHeader(<<"3", "0">>), JsonBody(Dict(EmptyMap))),
     Response(500, NoHeaders, BadBody)}
ConcurrentTransportErrorPool ==
    {[type |-> "Timeout", message |-> Lit("Operation timed out"), response |-> None]}

\* A call that has not been made: the frame of a call holds its arguments,
\* the requests it issued, the outcomes it got and its result.
IdleTask ==
    [pc |-> "idle", call |-> NoCall, sent |-> <<>>, received |-> <<>>, result |-> NoResult]

InitConcurrent ==
    /\ client \in ConcurrentClientPool
    /\ env \in ConcurrentEnvPool
    /\ pc = "idle"
    /\ call = NoCall
    /\ sent = <<>>
    /\ received = <<>>
    /\ result = NoResult
    /\ tasks = [t \in Tasks |-> IdleTask]
    /\ trace = <<>>

\* The local variables of call t kept on the client object, where every
\* call sees those of the first.
TaskState_OnClient(t) == tasks[1]

\* The local variables of call t: every method keeps its request, response
\* and intermediate results in locals of its own frame.
TaskState(t) == tasks[t]

\* get_public_key() or _sign_base64_transaction(transaction_base64) of
\* client self while the environment variable holds pk_raw.
SecretUseOf(self, pk_raw, cl) ==
    IF cl.op = "get_public_key"
    THEN GetPublicKey(pk_raw, self.private_key_env_var)
    ELSE SignBase64Transaction(pk_raw, self.private_key_env_var, cl.arg.transaction_base64)

\* The rest of a method after self.client.get / self.client.post returned
\* response, as in TransportResponds, on the frame of one call.
ResponseStep(self, pk_raw, task, response) ==
    LET handled == HandleResponseOf(self, response)
        prepared == PrepareExecuteRequestFromOrder(pk_raw, self.private_key_env_var,
                                                   handled.value)
        got == Append(task.received, [response |-> response])
    IN  IF task.call.op = "order_and_execute" /\ task.pc = "get" /\ handled.kind = "return"
        THEN IF prepared.kind = "return"
             THEN [task EXCEPT !.received = got, !.pc = "post",
                               !.sent = Append(task.sent, ExecutePostOf(self, prepared.value))]
             ELSE [task EXCEPT !.received = got, !.pc = "done", !.result = prepared]
        ELSE [task EXCEPT !.received = got, !.pc = "done", !.result = handled]

\* Call t starts a method that issues a transport request and awaits it.
TaskInvokes(t) ==
    /\ TaskState(t).pc = "idle"
    /\ \E cl \in ConcurrentCallPool :
        LET request == RequestOf(client, cl.op, cl.arg)
        IN  tasks' = [tasks EXCEPT ![t] =
                         [pc |-> IF request.method = "GET" THEN "get" ELSE "post",
                          call |-> cl, sent |-> <<request>>, received |-> <<>>,
                          result |-> NoResult]]
    /\ UNCHANGED <<client, env, pc, call, sent, received, result, trace>>

\* Call t runs get_public_key or _sign_base64_transaction: neither awaits.
TaskUsesSecret(t) ==
    /\ TaskState(t).pc = "idle"
    /\ \E cl \in ConcurrentSecretCallPool :
        tasks' = [tasks EXCEPT ![t] =
                     [pc |-> "done", call |-> cl, sent |-> <<>>, received |-> <<>>,
                      result |-> SecretUseOf(client, env, cl)]]
    /\ UNCHANGED <<client, env, pc, call, sent, received, result, trace>>

\* The transport call awaited by call t raises.
TaskTransportRaises(t) ==
    /\ TaskState(t).pc \in {"get", "post"}
    /\ \E e \in ConcurrentTransportErrorPool :
        tasks' = [tasks EXCEPT ![t] =
                     [TaskState(t) EXCEPT !.received = Append(@, [raised |-> e]),
                                          !.result = Raise(e), !.pc = "done"]]
    /\ UNCHANGED <<client, env, pc, call, sent, received, result, trace>>

\* The transport call awaited by call t returns a response.
TaskTransportResponds(t) ==
    /\ TaskState(t).pc \in {"get", "post"}
    /\ \E response \in ConcurrentResponsePool :
        tasks' = [tasks EXCEPT ![t] = ResponseStep(client, env, TaskState(t), response)]
    /\ UNCHANGED <<client, env, pc, call, sent, received, result, trace>>

\* The caller of call t takes its result.
TaskFinish(t) ==
    /\ TaskState(t).pc = "done"
    /\ tasks' = [tasks EXCEPT ![t] = IdleTask]
    /\ UNCHANGED <<client, env, pc, call, sent, received, result, trace>>

\* The environment variable named by private_key_env_var is set to another
\* value or removed.
EnvChanges ==
    /\ env' \in ConcurrentEnvPool \ {env}
    /\ UNCHANGED <<client, pc, call, sent, received, result, tasks, trace>>

NextConcurrent ==
    \/ \E t \in Tasks : TaskInvokes(t)
    \/ \E t \in Tasks : TaskUsesSecret(t)
    \/ \E t \in Tasks : TaskTransportRaises(t)
    \/ \E t \in Tasks : TaskTransportResponds(t)
    \/ \E t \in Tasks : TaskFinish(t)
    \/ EnvChanges

SpecConcurrent == InitConcurrent /\ [][NextConcurrent]_vars

(***************************************************************************)
(* Loading the key                                                         *)
(***************************************************************************)
\* The largest number of entries of the short arrays tried as a key.
MaxEntries == 2

\* Entries of a JSON array: bytes, numbers out of range, and values that
\* are not numbers.
EntryPool ==
    {Num(0), Num(255), Num(256), Num(-1), Bool(TRUE), Bool(FALSE), None,
     Str("7"), Float("1.5"), List(<<>>)}
ShortArrays == UNION {[1..n -> EntryPool] : n \in 0..MaxEntries}
WalletArray == AsSeq([i \in 1..KeypairLen |-> Num(WalletBytes[i])])
WalletArrayWith(i, entry) == [WalletArray EXCEPT ![i] = entry]
KeyArrays ==
    ShortArrays \cup {WalletArray}
    \cup {WalletArrayWith(i, entry) : i \in {1, KeypairLen}, entry \in EntryPool}

\* Values of the environment variable: unset, empty, whitespace, array
\* texts and other texts, each also surrounded by whitespace.
KeyTextPool ==
    {Unset, Text(FALSE, Blank), Text(TRUE, Blank)}
    \cup {Text(pad, ArrayText(json)) :
            pad \in BOOLEAN, json \in {BadBody} \cup {JsonBody(List(items)) : items \in KeyArrays}}
    \cup {Text(pad, BadBase58Text) : pad \in BOOLEAN}
    \cup {Text(pad, Base58Text(bytes)) :
            pad \in BOOLEAN,
            bytes \in {WalletBytes, StrangerBytes, SubSeq(WalletBytes, 1, SecretLen), <<0>>}}

InitKey ==
    /\ client \in ClientPool
    /\ env \in KeyTextPool
    /\ pc = "idle"
    /\ call = NoCall
    /\ sent = <<>>
    /\ received = <<>>
    /\ result = NoResult
    /\ tasks = <<>>
    /\ trace = <<>>

\* _load_private_key_bytes(), called directly.
load_private_key_bytes ==
    /\ pc = "idle"
    /\ call' = [op |-> "_load_private_key_bytes", arg |-> NoArgs]
    /\ LET loaded == LoadPrivateKeyBytes(env, client.private_key_env_var)
       IN  result' = IF loaded.kind = "return" THEN Return(Bytes(loaded.value)) ELSE loaded
    /\ pc' = "done"
    /\ UNCHANGED <<client, env, sent, received, tasks, trace>>

NextKey ==
    \/ load_private_key_bytes
    \/ get_public_key
    \/ get_public_key_async
    \/ Finish

SpecKey == InitKey /\ [][NextKey]_vars

(***************************************************************************)
(* order_and_execute step by step                                          *)
(***************************************************************************)
\* The checks of _prepare_execute_request_from_order on the order response,
\* up to transaction_data.
ValidateOrderResponse(order_response) ==
    IF order_response.t # "dict"
    THEN Raise(JupiterValidationError(Lit("Invalid order response: expected dictionary"),
                                      None, Str(TypeName(order_response))))
    ELSE IF "requestId" \notin DOMAIN order_response.d
    THEN Raise(MissingField("requestId"))
    ELSE IF "transaction" \notin DOMAIN order_response.d
    THEN Raise(MissingField("transaction"))
    ELSE LET transaction_data == order_response.d["transaction"]
         IN  IF ~Truthy(transaction_data) \/ transaction_data.t # "str"
             THEN Raise(JupiterValidationError(
                      Lit("Order response contains invalid transaction data"),
                      Str("transaction"), transaction_data))
             ELSE Return(transaction_data)

\* _sign_base64_transaction up to VersionedTransaction.from_bytes, with the
\* except clauses of its try block.
DecodeTransaction(transaction_base64) ==
    IF ~Truthy(transaction_base64)
    THEN Raise(JupiterValidationError(Lit("Empty transaction data received from API"),
                                      Str("transaction"), transaction_base64))
    ELSE IF transaction_base64.t # "str"
    THEN Raise(JupiterValidationError(Lit("Transaction data must be a string"),
                                      Str("transaction"), Str(TypeName(transaction_base64))))
    ELSE LET decoded == B64Decode(transaction_base64)
         IN  IF decoded.kind = "raise"
             THEN Raise(WrapSigningError(decoded.exc, transaction_base64))
             ELSE IF decoded.value = EmptyBytes
             THEN Raise(JupiterValidationError(Lit("Transaction base64 decoded to empty bytes"),
                                               Str("transaction"),
                                               Abbreviate(transaction_base64)))
             ELSE IF FromBytesRaises(decoded.value)
             THEN Raise(WrapSigningError(PyError("ValueError", Lit(decoded.value.err)),
                                         transaction_base64))
             ELSE Return(FromBytes(decoded.value))

\* The call of _sign_versioned_transaction inside the try block of
\* _sign_base64_transaction.
SignDecoded(pk_raw, field, versioned_transaction, transaction_base64) ==
    LET signed == SignVersionedTransaction(pk_raw, field, versioned_transaction)
    IN  IF signed.kind = "raise" /\ signed.exc.type # "JupiterValidationError"
        THEN Raise(WrapSigningError(signed.exc, transaction_base64))
        ELSE signed

\* The order response and its transaction, as the later steps hold them in
\* order_response and transaction_data.
OrderResponseHeld == HandleResponseOf(client, received[1].response).value
TransactionDataHeld == OrderResponseHeld.d["transaction"]

PipelineRequestPool == {ConcurrentOrderRequest}

InitPipeline ==
    /\ client \in ClientPool
    /\ env \in EnvPool
    /\ pc = "idle"
    /\ call = NoCall
    /\ sent = <<>>
    /\ received = <<>>
    /\ result = NoResult
    /\ tasks = <<>>
    /\ trace = <<>>

\* A step of order_and_execute that ends the method with an exception.
Fails(outcome) ==
    /\ result' = outcome
    /\ pc' = "done"

\* order_and_execute(request) up to the self.client.get of _call_order.
PipelineStarts ==
    /\ pc = "idle"
    /\ \E request \in PipelineRequestPool :
        /\ call' = [op |-> "order_and_execute", arg |-> [request |-> request]]
        /\ sent' = <<RequestOf(client, "order_and_execute", [request |-> request])>>
    /\ pc' = "get"
    /\ trace' = <<"order_get">>
    /\ UNCHANGED <<client, env, received, result, tasks>>

\* self.client.get / self.client.post raises.
PipelineTransportRaises ==
    /\ pc \in {"get", "post"}
    /\ \E e \in TransportErrorPool :
        /\ received' = Append(received, [raised |-> e])
        /\ Fails(Raise(e))
    /\ UNCHANGED <<client, env, call, sent, tasks, trace>>

\* self.client.get returns: _handle_response on the order response.
PipelineOrderResponds ==
    /\ pc = "get"
    /\ \E response \in ResponsePool :
        LET handled == HandleResponseOf(client, response)
        IN  /\ received' = Append(received, [response |-> response])
            /\ IF handled.kind = "raise"
               THEN Fails(handled) /\ trace' = trace
               ELSE /\ pc' = "validate"
                    /\ trace' = Append(trace, "order_ok")
                    /\ result' = result
    /\ UNCHANGED <<client, env, call, sent, tasks>>

\* A step that validates the order response after the secret was loaded.
PipelineValidates_LoadsSecretFirst ==
    /\ pc = "validate"
    /\ LET checked == ValidateOrderResponse(OrderResponseHeld)
       IN  IF checked.kind = "raise"
           THEN Fails(checked) /\ trace' = Append(trace, "secret_read")
           ELSE /\ pc' = "decode"
                /\ trace' = trace \o <<"secret_read", "validated">>
                /\ result' = result
    /\ UNCHANGED <<client, env, call, sent, received, tasks>>

\* The checks of _prepare_execute_request_from_order.
PipelineValidates ==
    /\ pc = "validate"
    /\ LET checked == ValidateOrderResponse(OrderResponseHeld)
       IN  IF checked.kind = "raise"
           THEN Fails(checked) /\ trace' = trace
           ELSE /\ pc' = "decode"
                /\ trace' = Append(trace, "validated")
                /\ result' = result
    /\ UNCHANGED <<client, env, call, sent, received, tasks>>

\* _sign_base64_transaction up to the parsed transaction.
PipelineDecodes ==
    /\ pc = "decode"
    /\ LET decoded == DecodeTransaction(TransactionDataHeld)
       IN  IF decoded.kind = "raise"
           THEN Fails(decoded) /\ trace' = trace
           ELSE /\ pc' = "sign"
                /\ trace' = Append(trace, "decoded")
                /\ result' = result
    /\ UNCHANGED <<client, env, call, sent, received, tasks>>

\* _sign_versioned_transaction, which starts by reading the environment
\* variable; then the execute request is built and execute runs up to
\* self.client.post.
PipelineSigns ==
    /\ pc = "sign"
    /\ LET versioned_transaction == DecodeTransaction(TransactionDataHeld).value
           signed == SignDecoded(env, client.private_key_env_var, versioned_transaction,
                                 TransactionDataHeld)
           execute_request ==
               UltraExecuteRequest(OrderResponseHeld.d["requestId"],
                                   SerializeVersionedTransaction(signed.value))
       IN  IF signed.kind = "raise"
           THEN /\ Fails(signed)
                /\ trace' = Append(trace, "secret_read")
                /\ sent' = sent
           ELSE IF execute_request.kind = "raise"
           THEN /\ Fails(execute_request)
                /\ trace' = trace \o <<"secret_read", "signed">>
                /\ sent' = sent
           ELSE /\ sent' = Append(sent, ExecutePostOf(client, execute_request.value))
                /\ pc' = "post"
                /\ trace' = trace \o <<"secret_read", "signed", "execute_post">>
                /\ result' = result
    /\ UNCHANGED <<client, env, call, received, tasks>>

\* self.client.post returns: _handle_response on the execute response.
PipelineExecuteResponds ==
    /\ pc = "post"
    /\ \E response \in ConcurrentResponsePool :
        /\ received' = Append(received, [response |-> response])
        /\ result' = HandleResponseOf(client, response)
    /\ pc' = "done"
    /\ UNCHANGED <<client, env, call, sent, tasks, trace>>

\* The caller takes the result.
PipelineFinish ==
    /\ pc = "done"
    /\ pc' = "idle"
    /\ call' = NoCall
    /\ sent' = <<>>
    /\ received' = <<>>
    /\ result' = NoResult
    /\ trace' = <<>>
    /\ UNCHANGED <<client, env, tasks>>

NextPipeline ==
    \/ PipelineStarts
    \/ PipelineTransportRaises
    \/ PipelineOrderResponds
    \/ PipelineValidates
    \/ PipelineDecodes
    \/ PipelineSigns
    \/ PipelineExecuteResponds
    \/ PipelineFinish

SpecPipeline == InitPipeline /\ [][NextPipeline]_vars

(***************************************************************************)
(* Properties                                                              *)
(***************************************************************************)
Taxonomy ==
    {"JupiterValidationError", "JupiterNetworkError", "JupiterAPIError",
     "JupiterAuthenticationError", "JupiterRateLimitError"}

ApiOps == {"order", "execute", "balances", "shield"}
PipelineOps == ApiOps \cup {"order_and_execute"}

Done == pc = "done"
Raised(type) == result.kind = "raise" /\ result.exc.type = type
LastReceived == received[Len(received)]
TransportFailed == Len(received) > 0 /\ "raised" \in DOMAIN LastReceived
Responded == Len(received) > 0 /\ "response" \in DOMAIN LastReceived
LastStatus == LastReceived.response.status_code
PostsSent == {i \in 1..Len(sent) : sent[i].method = "POST"}

\* C1: when the transport's get/post raises before any response is
\* received, order, execute, balances, shield (and order_and_execute) fail
\* with JupiterNetworkError whose original_error is the transport's
\* exception, on the sync and on the async client.
C1_TransportFailureIsNetworkError ==
    (Done /\ call.op \in PipelineOps /\ TransportFailed) =>
        /\ Raised("JupiterNetworkError")
        /\ result.exc.original_error = LastReceived.raised

\* C2: _handle_response is total: for every response it returns a mapping
\* or raises one of the five errors of the taxonomy.
C2_ClassifierTotal ==
    Responded =>
        LET handled == HandleResponse(LastReceived.response)
        IN  \/ handled.kind = "return" /\ handled.value.t = "dict"
            \/ handled.kind = "raise" /\ handled.exc.type \in Taxonomy

\* C3: every failure of order_and_execute reaches the caller as one error
\* of the taxonomy.
C3_OrderAndExecuteFailsTyped ==
    (Done /\ call.op = "order_and_execute" /\ result.kind = "raise") =>
        result.exc.type \in Taxonomy

\* The order response received by this invocation of order_and_execute, when
\* the order stage succeeded.
OrderStageSucceeded ==
    /\ call.op = "order_and_execute"
    /\ Len(received) >= 1
    /\ "response" \in DOMAIN received[1]
    /\ HandleResponse(received[1].response).kind = "return"
OrderResponse == received[1].response.body.json

\* An order response without requestId, without transaction, or whose
\* transaction is empty or not a string.
MalformedOrderResponse(order_response) ==
    \/ "requestId" \notin DOMAIN order_response.d
    \/ "transaction" \notin DOMAIN order_response.d
    \/ order_response.d["transaction"] = Str("")
    \/ order_response.d["transaction"].t # "str"

\* C4: order_and_execute, given an order response that lacks requestId or
\* transaction, or whose transaction is empty or not a string, fails with
\* JupiterValidationError and issues no POST.
C4_MalformedOrderResponseRejected ==
    (OrderStageSucceeded /\ MalformedOrderResponse(OrderResponse)) =>
        /\ Done
        /\ Raised("JupiterValidationError")
        /\ PostsSent = {}

\* C4 witness: an order response with requestId and no transaction was
\* rejected for its transaction field.
C4_Witness ==
    /\ OrderStageSucceeded
    /\ DOMAIN OrderResponse.d = {"requestId"}
    /\ Done
    /\ Raised("JupiterValidationError")
    /\ result.exc.field = Str("transaction")

\* The transaction tx with the slot of pubkey holding pubkey's signature of
\* the message, every other slot as it was.
SignedBy(tx, pubkey) ==
    Transaction(tx.message,
                AsSeq([i \in 1..Len(tx.signatures) |->
                          IF tx.message.account_keys[i] = pubkey
                          THEN SignatureBy(pubkey, tx.message)
                          ELSE tx.signatures[i]]))

\* The public key of the configured secret.
ConfiguredPubkey ==
    SubSeq(LoadPrivateKeyBytes(env, client.private_key_env_var).value, SecretLen + 1, KeypairLen)

\* C5: whenever order_and_execute issues an execute request, its body has
\* exactly the fields signedTransaction and requestId; requestId is the
\* order response's requestId and signedTransaction is the base64 encoding
\* of the order response's transaction signed with the configured key.
C5_ExecuteBodyFromOrderResponse ==
    (call.op = "order_and_execute" /\ PostsSent # {}) =>
        /\ OrderStageSucceeded
        /\ PostsSent = {2}
        /\ DOMAIN sent[2].json = {"signedTransaction", "requestId"}
        /\ sent[2].json["requestId"] = OrderResponse.d["requestId"]
        /\ sent[2].json["signedTransaction"] =
               B64Str(Serialize(SignedBy(OrderResponse.d["transaction"].b64.tx,
                                         ConfiguredPubkey)))

\* C5 witness: an execute request was issued for the order r1.
C5_Witness ==
    /\ call.op = "order_and_execute"
    /\ pc = "post"
    /\ OrderResponse.d["requestId"] = Str("r1")
    /\ sent[2].json["requestId"] = Str("r1")
    /\ sent[2].json["signedTransaction"] # OrderResponse.d["transaction"]

\* The configured secret loads and is a keypair encoding.
SecretIsKeypair ==
    LET loaded == LoadPrivateKeyBytes(env, client.private_key_env_var)
    IN  loaded.kind = "return" /\ Len(loaded.value) = KeypairLen

\* The 0-based positions of the configured public key in tx's account keys.
WalletPositions(tx) ==
    {k \in 0..(Len(tx.message.account_keys) - 1) :
        tx.message.account_keys[k + 1] = ConfiguredPubkey}

\* The configured key is a required signer of tx: its public key is at a
\* position that has a signature slot.
IsRequiredSigner(tx) ==
    SecretIsKeypair /\ \E k \in WalletPositions(tx) : k < Len(tx.signatures)

\* C6: signing a decoded transaction with N signature slots, the signer's
\* public key at position k < N, yields a transaction with the same message
\* and N slots, every slot other than k identical to the input's.
C6_SigningPreservesOtherSlots ==
    (Done /\ call.op = "_sign_versioned_transaction") =>
        LET tx == call.arg.versioned_transaction
        IN  IsRequiredSigner(tx) =>
                /\ result.kind = "return"
                /\ result.value.message = tx.message
                /\ Len(result.value.signatures) = Len(tx.signatures)
                /\ \A i \in 1..Len(tx.signatures) :
                       (i - 1) \notin WalletPositions(tx) =>
                           result.value.signatures[i] = tx.signatures[i]

\* The transaction carried by the text signed or by the order response.
TransactionToSign ==
    CASE call.op = "_sign_versioned_transaction" -> call.arg.versioned_transaction
      [] call.op = "_sign_base64_transaction" -> call.arg.transaction_base64.b64.tx
      [] OTHER -> OrderResponse.d["transaction"].b64.tx

\* A signing of a well-formed transaction took place: directly, through
\* _sign_base64_transaction, or in order_and_execute.
SigningAttempted ==
    \/ call.op = "_sign_versioned_transaction"
    \/ /\ call.op = "_sign_base64_transaction"
       /\ "b64" \in DOMAIN call.arg.transaction_base64
       /\ call.arg.transaction_base64.b64.k = "tx"
    \/ /\ OrderStageSucceeded
       /\ ~MalformedOrderResponse(OrderResponse)
       /\ "b64" \in DOMAIN OrderResponse.d["transaction"]
       /\ OrderResponse.d["transaction"].b64.k = "tx"

\* C7: signing a transaction of which the configured key is not a required
\* signer fails with JupiterValidationError and produces no signed
\* transaction, directly and through _sign_base64_transaction /
\* order_and_execute.
C7_NotARequiredSignerRejected ==
    (SigningAttempted /\ SecretIsKeypair /\ ~IsRequiredSigner(TransactionToSign)) =>
        /\ Done
        /\ Raised("JupiterValidationError")
        /\ PostsSent = {}

\* C8: a 401 or 403 response is classified as JupiterAuthenticationError
\* carrying that status code, whatever the body; the 401 message reports
\* invalid credentials, the 403 message insufficient permissions.
C8_AuthenticationErrors ==
    (Done /\ Responded /\ LastStatus \in {401, 403}) =>
        /\ Raised("JupiterAuthenticationError")
        /\ result.exc.status_code = Num(LastStatus)
        /\ LastStatus = 401 =>
               result.exc.message =
                   Lit("Authentication failed: Invalid API key or unauthorized access")
        /\ LastStatus = 403 =>
               result.exc.message = Lit("Access forbidden: Insufficient permissions")

\* C8 witness: a 403 whose body is not a JSON object was classified.
C8_Witness ==
    /\ Done
    /\ Responded
    /\ LastStatus = 403
    /\ LastReceived.response.body = JsonBody(Num(5))
    /\ Raised("JupiterAuthenticationError")

\* The retry-after header of the last response, if it has one.
LastRetryAfterHeader ==
    IF "retry-after" \in DOMAIN LastReceived.response.headers
    THEN LastReceived.response.headers["retry-after"]
    ELSE <<>>

\* C9: a 429 response is classified as JupiterRateLimitError with status
\* code 429; retry_after is the integer value of the retry-after header
\* when it is present and parses as an integer, and unset when the header
\* is absent, empty or not parseable.
C9_RateLimitError ==
    (Done /\ Responded /\ LastStatus = 429) =>
        /\ Raised("JupiterRateLimitError")
        /\ result.exc.status_code = Num(429)
        /\ LastRetryAfterHeader = <<"3", "0">> => result.exc.retry_after = Num(30)
        /\ LastRetryAfterHeader = <<" ", "7">> => result.exc.retry_after = Num(7)
        /\ LastRetryAfterHeader = <<"-", "5">> => result.exc.retry_after = Num(0 - 5)
        /\ LastRetryAfterHeader = <<"0">> => result.exc.retry_after = Num(0)
        /\ LastRetryAfterHeader \in {<<>>, <<"1", ".", "5">>, <<"s", "o", "o", "n">>} =>
               result.exc.retry_after = None
        /\ IntRaises(LastRetryAfterHeader) => result.exc.retry_after = None
        /\ ~IntRaises(LastRetryAfterHeader) =>
               result.exc.retry_after = Num(IntOf(LastRetryAfterHeader))

\* C9 witnesses: a 429 with retry-after: 30, and one with an unparseable
\* retry-after, were both classified as rate limit errors.
C9_Witness ==
    /\ Done
    /\ Responded
    /\ LastStatus = 429
    /\ Raised("JupiterRateLimitError")
    /\ \/ LastRetryAfterHeader = <<"3", "0">> /\ result.exc.retry_after = Num(30)
       \/ LastRetryAfterHeader = <<"s", "o", "o", "n">> /\ result.exc.retry_after = None

\* The message the claim gives a generic API error.
ExpectedApiMessage(status_code, body) ==
    IF body.parses /\ body.json.t = "dict" /\ "errorMessage" \in DOMAIN body.json.d
    THEN body.json.d["errorMessage"]
    ELSE IF body.parses /\ body.json.t = "dict" /\ "message" \in DOMAIN body.json.d
    THEN body.json.d["message"]
    ELSE Fmt("HTTP {} error", Num(status_code))

\* C10: a response with a non-2xx status other than 401, 403 and 429 is
\* classified as JupiterAPIError carrying the status code and the parsed
\* body (empty when the body does not parse); its message is the body's
\* errorMessage, else its message, else 'HTTP <code> error'.
C10_GenericApiError ==
    (Done /\ Responded /\ ~(200 <= LastStatus /\ LastStatus <= 299)
          /\ LastStatus \notin {401, 403, 429}) =>
        /\ Raised("JupiterAPIError")
        /\ result.exc.status_code = Num(LastStatus)
        /\ result.exc.response_data =
               (IF LastReceived.response.body.parses
                THEN LastReceived.response.body.json ELSE Dict(EmptyMap))
        /\ result.exc.message = ExpectedApiMessage(LastStatus, LastReceived.response.body)

\* The last response has a 2xx status and a body that parses.
Parsed2xx ==
    /\ Responded
    /\ 200 <= LastStatus /\ LastStatus <= 299
    /\ LastReceived.response.body.parses
LastJson == LastReceived.response.body.json

\* C11: a 2xx response whose body is a JSON object with the key
\* errorMessage, whatever its value, is classified as JupiterAPIError
\* carrying the status code and the body; order, execute, balances and
\* shield never return a mapping that has the key errorMessage.
C11_InBandErrorIsApiError ==
    /\ (Done /\ Parsed2xx /\ LastJson.t = "dict" /\ "errorMessage" \in DOMAIN LastJson.d) =>
           /\ Raised("JupiterAPIError")
           /\ result.exc.status_code = Num(LastStatus)
           /\ result.exc.response_data = LastJson
    /\ (Done /\ call.op \in ApiOps /\ result.kind = "return") =>
           /\ result.value.t = "dict"
           /\ "errorMessage" \notin DOMAIN result.value.d

\* C11 witness: a 200 whose body is {"errorMessage": null} was raised as
\* JupiterAPIError.
C11_Witness ==
    /\ Done
    /\ Parsed2xx
    /\ LastStatus = 200
    /\ LastJson = Dict(Map1("errorMessage", None))
    /\ Raised("JupiterAPIError")
    /\ result.exc.status_code = Num(200)

\* C12: a 2xx response whose parsed body is not a JSON object is
\* classified as JupiterValidationError, also when the body is a list or a
\* string that contains the text errorMessage.
C12_NonObjectBodyIsValidationError ==
    (Done /\ Parsed2xx /\ LastJson.t # "dict") =>
        /\ Raised("JupiterValidationError")
        /\ result.exc.message = Lit("Invalid response format: expected JSON object")
        /\ result.exc.value = Str(TypeName(LastJson))

\* C12 witness: a 200 whose body is a JSON string containing errorMessage
\* was raised as JupiterValidationError.
C12_Witness ==
    /\ Done
    /\ Parsed2xx
    /\ LastJson = Str("errorMessage: boom")
    /\ Raised("JupiterValidationError")

\* C13: order, execute, balances and shield return the parsed body of a
\* 2xx response unmodified when it is a JSON object without errorMessage,
\* an execute body reporting status Failed included.
C13_SuccessReturnsParsedBody ==
    (Done /\ call.op \in ApiOps /\ Parsed2xx /\ LastJson.t = "dict"
          /\ "errorMessage" \notin DOMAIN LastJson.d) =>
        result = Return(LastJson)

\* C13 witness: execute returned a body reporting status Failed with code
\* and error.
C13_Witness ==
    /\ Done
    /\ call.op = "execute"
    /\ Parsed2xx
    /\ LastJson.t = "dict"
    /\ DOMAIN LastJson.d = {"status", "code", "error"}
    /\ LastJson.d["status"] = Str("Failed")
    /\ result = Return(LastJson)

\* C14: an invocation of order, execute, balances or shield issues exactly
\* one transport request; an invocation of order_and_execute issues one
\* GET and then at most one POST; a request is issued only after every
\* earlier one was answered, and none after a failure, a rate limit or
\* network error included.
C14_NoRetry ==
    /\ Len(received) <= Len(sent)
    /\ call.op \in ApiOps =>
           /\ Len(sent) = 1
           /\ sent[1].method = (IF call.op = "execute" THEN "POST" ELSE "GET")
    /\ call.op = "order_and_execute" =>
           /\ Len(sent) \in {1, 2}
           /\ sent[1].method = "GET"
           /\ Len(sent) = 2 => (sent[2].method = "POST" /\ Len(received) >= 1)
    /\ (Done /\ call.op \in PipelineOps) => Len(received) = Len(sent)
    /\ (call.op \in PipelineOps /\ Len(received) < Len(sent)) => pc \in {"get", "post"}

\* C14 witness: order_and_execute ended with a rate limit error at its
\* execute stage, having issued one GET and one POST.
C14_Witness ==
    /\ Done
    /\ call.op = "order_and_execute"
    /\ Len(sent) = 2
    /\ Responded
    /\ LastStatus = 429
    /\ Raised("JupiterRateLimitError")

\* An order response that violates the OrderResponse invariant: it carries
\* neither transaction nor errorMessage, or transaction without requestId.
ViolatesOrderInvariant(order_response) ==
    \/ /\ "transaction" \notin DOMAIN order_response.d
       /\ "errorMessage" \notin DOMAIN order_response.d
    \/ /\ "transaction" \in DOMAIN order_response.d
       /\ "requestId" \notin DOMAIN order_response.d

\* order_and_execute does not proceed to execute with an order response
\* that violates the invariant: it fails with JupiterValidationError.
ViolationStopsPipeline ==
    (OrderStageSucceeded /\ ViolatesOrderInvariant(OrderResponse)) =>
        /\ Done
        /\ Raised("JupiterValidationError")
        /\ PostsSent = {}

\* C15 (as stated): no order response that violates the OrderResponse
\* invariant is accepted as a success: order does not return it and
\* order_and_execute does not proceed to execute with it.
C15_ViolatingOrderResponseNotAccepted ==
    /\ (Done /\ call.op = "order" /\ result.kind = "return") =>
           ~ViolatesOrderInvariant(result.value)
    /\ ViolationStopsPipeline

\* C15 (amended): order returns every 2xx object body without errorMessage
\* unchanged, the bodies that violate the OrderResponse invariant included;
\* order_and_execute given such a body fails with JupiterValidationError
\* and issues no execute request.
C15_OnlyPipelineRejectsViolations ==
    /\ (Done /\ call.op = "order" /\ Parsed2xx /\ LastJson.t = "dict"
             /\ ViolatesOrderInvariant(LastJson)
             /\ "errorMessage" \notin DOMAIN LastJson.d) =>
           result = Return(LastJson)
    /\ ViolationStopsPipeline

\* C15 witness: order returned a body with a transaction and no requestId.
C15_Witness ==
    /\ Done
    /\ call.op = "order"
    /\ result.kind = "return"
    /\ DOMAIN result.value.d = {"transaction"}
    /\ ViolatesOrderInvariant(result.value)

\* C16: for every request and every sequence of transport outcomes, the
\* asynchronous client issues the requests the synchronous client issues,
\* in the same order, and finishes with the same result or with the same
\* error: class, message and attached context.
C16_AsyncMatchesSync ==
    call.op \in PipelineOps =>
        LET sync == SyncRun(client, env, call, received)
        IN  /\ pc = sync.pc
            /\ sent = sync.sent
            /\ result = sync.result

\* C16 witness: order_and_execute on the asynchronous client ended at its
\* execute stage with a rate limit error that carries retry_after.
C16_Witness ==
    /\ client.kind = "async"
    /\ call.op = "order_and_execute"
    /\ Done
    /\ Len(sent) = 2
    /\ Raised("JupiterRateLimitError")
    /\ result.exc.retry_after = Num(30)

\* C17: calls outstanding together on one client are independent.  Each
\* call's position, requests and result are those of the same method run
\* alone on its own arguments and its own transport outcomes under some
\* value of the secret; a call awaiting the transport can always take its
\* response or its exception, whatever the other calls are doing; and no
\* step changes the client's api_key, base_url or private_key_env_var.
SecretOps == {"get_public_key", "_sign_base64_transaction"}
TaskMatchesOwnCall(t) ==
    LET task == tasks[t]
    IN  CASE task.call.op \in PipelineOps ->
                 \E pk_raw \in ConcurrentEnvPool :
                     LET sync == SyncRun(client, pk_raw, task.call, task.received)
                     IN  task.pc = sync.pc /\ task.sent = sync.sent /\ task.result = sync.result
          [] task.call.op \in SecretOps ->
                 /\ task.pc = "done" /\ task.sent = <<>> /\ task.received = <<>>
                 /\ \E pk_raw \in ConcurrentEnvPool :
                        task.result = SecretUseOf(client, pk_raw, task.call)
          [] OTHER -> task = IdleTask
NoCallWaits(t) ==
    tasks[t].pc \in {"get", "post"} =>
        ENABLED TaskTransportResponds(t) /\ ENABLED TaskTransportRaises(t)
C17_CallsAreIndependent ==
    /\ [](\A t \in Tasks : TaskMatchesOwnCall(t) /\ NoCallWaits(t))
    /\ [][client' = client]_vars

\* A later call has completed while an earlier order_and_execute is still
\* awaiting its second transport call.
C17_Witness ==
    /\ tasks[1].call.op = "order_and_execute" /\ tasks[1].pc = "post"
    /\ tasks[2].call.op = "balances" /\ tasks[2].pc = "done"
    /\ tasks[2].result.kind = "raise" /\ tasks[2].result.exc.type = "JupiterRateLimitError"

\* C18: the secret is read from the environment anew on every
\* get_public_key and every signing operation, and nothing derived from it
\* is kept on the client.  Whatever earlier calls saw, a call made while the
\* variable holds the wallet's key returns the wallet's public key or the
\* transaction signed by the wallet, one made while it holds another key
\* uses that key, and one made while it is removed fails with
\* JupiterValidationError; order_and_execute signs with the value the
\* variable holds when the order response arrives.
WalletEnv == Text(FALSE, Base58Text(WalletBytes))
StrangerEnv == Text(FALSE, Base58Text(StrangerBytes))
WalletSigned ==
    Transaction(TxMessage(1, 0), <<SignatureBy(WalletPubkey, TxMessage(1, 0))>>)
IsValidationError(res) == res.kind = "raise" /\ res.exc.type = "JupiterValidationError"
UsesCurrentSecret(cl, res) ==
    CASE env = WalletEnv ->
             IF cl.op = "get_public_key" THEN res = Return(Base58Str(WalletPubkey))
             ELSE res = Return(WalletSigned)
      [] env = StrangerEnv ->
             IF cl.op = "get_public_key" THEN res = Return(Base58Str(PubkeyBytes(6)))
             ELSE IsValidationError(res)
      [] env = Unset -> IsValidationError(res)
SignsWithCurrentSecret(before, after) ==
    IF env = WalletEnv
    THEN /\ after.pc = "post"
         /\ after.sent[2].json["signedTransaction"] = B64Str(Serialize(WalletSigned))
    ELSE /\ after.pc = "done"
         /\ after.sent = before.sent
         /\ IsValidationError(after.result)
GotOrder(after) ==
    /\ "response" \in DOMAIN after.received[1]
    /\ after.received[1].response.status_code = 200
    /\ after.received[1].response.body.parses
    /\ after.received[1].response.body.json.t = "dict"
    /\ "transaction" \in DOMAIN after.received[1].response.body.json.d
C18_SecretReadAnew ==
    /\ [][\A t \in Tasks :
            /\ (tasks[t].pc = "idle" /\ tasks'[t].pc = "done") =>
                   UsesCurrentSecret(tasks'[t].call, tasks'[t].result)
            /\ (tasks[t].call.op = "order_and_execute" /\ tasks[t].pc = "get"
                /\ tasks'[t].pc # "get" /\ GotOrder(tasks'[t])) =>
                   SignsWithCurrentSecret(tasks[t], tasks'[t])]_vars
    /\ [][client' = client]_vars
    /\ [](DOMAIN client = {"kind", "api_key", "base_url", "private_key_env_var"})

\* One get_public_key returned the wallet's key; the variable was then
\* removed and a later get_public_key on the same client failed.
C18_Witness ==
    /\ env = Unset
    /\ tasks[1].call.op = "get_public_key" /\ tasks[1].result = Return(Base58Str(WalletPubkey))
    /\ tasks[2].call.op = "get_public_key" /\ IsValidationError(tasks[2].result)

\* C19: a client constructed with an API key sends every request to
\* https://api.jup.ag with x-api-key set to that key; a client constructed
\* with no key or an empty one sends every request to
\* https://lite-api.jup.ag without x-api-key; every request carries
\* Accept: application/json and no other header.  So x-api-key is present
\* exactly on the requests to the authenticated host.
EndpointPaths ==
    {"/ultra/v1/order", "/ultra/v1/execute", "/ultra/v1/shield"}
    \cup {"/ultra/v1/balances/" \o address : address \in AddressPool}
UrlsOf(host) == {host \o path : path \in EndpointPaths}
HasApiKey == client.api_key \notin {None, Str("")}
C19_HostAndHeadersFollowApiKey ==
    \A i \in 1..Len(sent) :
        LET headers == sent[i].headers
        IN  /\ "Accept" \in DOMAIN headers /\ headers["Accept"] = Str("application/json")
            /\ DOMAIN headers \subseteq {"Accept", "x-api-key"}
            /\ IF HasApiKey
               THEN /\ sent[i].url \in UrlsOf("https://api.jup.ag")
                    /\ "x-api-key" \in DOMAIN headers
                    /\ headers["x-api-key"] = client.api_key
               ELSE /\ sent[i].url \in UrlsOf("https://lite-api.jup.ag")
                    /\ "x-api-key" \notin DOMAIN headers
            /\ ("x-api-key" \in DOMAIN headers) <=>
                   (sent[i].url \in UrlsOf("https://api.jup.ag"))

\* A client constructed with the empty key has sent both requests of
\* order_and_execute.
C19_Witness ==
    /\ client.api_key = Str("")
    /\ call.op = "order_and_execute"
    /\ Len(sent) = 2
    /\ sent[2].method = "POST"

\* C20: shield(mints) issues exactly one GET, to the shield endpoint, whose
\* query parameters are the single parameter mints, the given identifiers
\* joined by commas in the given order: m1,m2 for [m1, m2].
ExpectedMints(mints) ==
    CASE mints = <<>> -> ""
      [] mints = <<"m1">> -> "m1"
      [] mints = <<"m1", "m2">> -> "m1,m2"
      [] mints = <<"m2", "m1">> -> "m2,m1"
      [] mints = <<"m1", "m1">> -> "m1,m1"
C20_ShieldSendsJoinedMints ==
    call.op = "shield" =>
        /\ Len(sent) = 1
        /\ sent[1].method = "GET"
        /\ sent[1].url = client.base_url \o "/ultra/v1/shield"
        /\ DOMAIN sent[1].params = {"mints"}
        /\ sent[1].params.mints = Str(ExpectedMints(call.arg.mints))

\* shield(["m1", "m2"]) has completed after its one request.
C20_Witness ==
    /\ Done /\ call.op = "shield" /\ call.arg.mints = <<"m1", "m2">>
    /\ Len(received) = 1
    /\ sent[1].params.mints = Str("m1,m2")

\* C21: _load_private_key_bytes fails with JupiterValidationError when the
\* variable is unset, empty or whitespace only; when the trimmed value has
\* the array form and is not valid JSON, is an empty array, or has an entry
\* that is not an integer in 0..255 (a float, string, boolean, null or
\* number out of range); and when a value of another form is not base58 or
\* decodes to no bytes.  In every other case it returns the decoded bytes.
IsByteInteger(x) == x.t = "int" /\ 0 <= x.n /\ x.n <= 255
MustFailToLoad(pk_raw) ==
    \/ ~pk_raw.set
    \/ pk_raw.core.form = "blank"
    \/ /\ pk_raw.core.form = "array"
       /\ \/ ~pk_raw.core.json.parses
          \/ Len(pk_raw.core.json.json.items) = 0
          \/ \E i \in 1..Len(pk_raw.core.json.json.items) :
                 ~IsByteInteger(pk_raw.core.json.json.items[i])
    \/ /\ pk_raw.core.form = "base58"
       /\ \/ ~pk_raw.core.decodes
          \/ Len(pk_raw.core.bytes) = 0
DecodedBytes(pk_raw) ==
    IF pk_raw.core.form = "array"
    THEN AsSeq([i \in 1..Len(pk_raw.core.json.json.items) |-> pk_raw.core.json.json.items[i].n])
    ELSE pk_raw.core.bytes
C21_LoadFailsExactlyOnInvalidSecret ==
    (Done /\ call.op = "_load_private_key_bytes") =>
        IF MustFailToLoad(env)
        THEN Raised("JupiterValidationError")
        ELSE result = Return(Bytes(DecodedBytes(env)))

\* C22: get_public_key fails with JupiterValidationError, and with no
\* other exception, whenever the secret loads but its length is not that
\* of a keypair.
LoadsWithWrongLength(pk_raw) ==
    /\ pk_raw.set
    /\ ~MustFailToLoad(pk_raw)
    /\ Len(DecodedBytes(pk_raw)) # KeypairLen
C22_WrongLengthSecretIsValidationError ==
    (Done /\ call.op = "get_public_key" /\ LoadsWithWrongLength(env)) =>
        Raised("JupiterValidationError")

\* C23: JupiterAuthenticationError and JupiterRateLimitError are kinds of
\* JupiterAPIError; JupiterAPIError, JupiterValidationError and
\* JupiterNetworkError are kinds of JupiterError; the last two are not
\* kinds of JupiterAPIError.  So every response with a status outside 2xx
\* and every in-band failure ends in an exception a caller catching
\* JupiterAPIError receives, no validation or network failure is received
\* by that caller, and every exception raised after a response is received
\* by a caller catching JupiterError.
InBandFailure ==
    Parsed2xx /\ LastJson.t = "dict" /\ "errorMessage" \in DOMAIN LastJson.d
ClassesAreRelated ==
    /\ IsInstance("JupiterAuthenticationError", "JupiterAPIError")
    /\ IsInstance("JupiterRateLimitError", "JupiterAPIError")
    /\ \A type \in Taxonomy : IsInstance(type, "JupiterError")
    /\ ~IsInstance("JupiterValidationError", "JupiterAPIError")
    /\ ~IsInstance("JupiterNetworkError", "JupiterAPIError")
C23_CatchingByKind ==
    /\ ClassesAreRelated
    /\ (Done /\ call.op \in ApiOps /\ Responded) =>
           /\ (~(200 <= LastStatus /\ LastStatus <= 299) \/ InBandFailure) =>
                  /\ result.kind = "raise"
                  /\ IsInstance(result.exc.type, "JupiterAPIError")
           /\ result.kind = "raise" => IsInstance(result.exc.type, "JupiterError")
           /\ (result.kind = "raise"
               /\ result.exc.type \in {"JupiterValidationError", "JupiterNetworkError"}) =>
                  ~IsInstance(result.exc.type, "JupiterAPIError")

\* C24: to_dict of a request model has one entry for every field that is
\* not None, under the camelCase form of the field name and with the
\* field's value, and no entry for a field that is None; these entries are
\* the query parameters of the order GET and the JSON body of the execute
\* POST.
ExpectedOrderParams(request) ==
    LET keys == {"inputMint", "outputMint", "amount"}
                \cup (IF request.taker # None THEN {"taker"} ELSE {})
                \cup (IF request.referral_account # None THEN {"referralAccount"} ELSE {})
                \cup (IF request.referral_fee # None THEN {"referralFee"} ELSE {})
    IN  [k \in keys |->
            CASE k = "inputMint" -> request.input_mint
              [] k = "outputMint" -> request.output_mint
              [] k = "amount" -> request.amount
              [] k = "taker" -> request.taker
              [] k = "referralAccount" -> request.referral_account
              [] k = "referralFee" -> request.referral_fee]
C24_ToDictGivesRequestEntries ==
    /\ (call.op \in {"order", "order_and_execute"}) =>
           sent[1].params = ExpectedOrderParams(call.arg.request)
    /\ (call.op = "execute") =>
           sent[1].json = [k \in {"signedTransaction", "requestId"} |->
                              IF k = "requestId" THEN call.arg.request.request_id
                              ELSE call.arg.request.signed_transaction]
    /\ \A i \in PostsSent :
           /\ DOMAIN sent[i].json = {"signedTransaction", "requestId"}
           /\ None \notin {sent[i].json[k] : k \in DOMAIN sent[i].json}

\* order was called with a request that has referral fields and no taker.
C24_Witness ==
    /\ Done /\ call.op = "order"
    /\ call.arg.request.taker = None
    /\ call.arg.request.referral_fee = Num(50)
    /\ DOMAIN sent[1].params =
           {"inputMint", "outputMint", "amount", "referralAccount", "referralFee"}

\* C25: when the text given to _sign_base64_transaction decodes to a
\* transaction and a later step fails (loading the secret, deriving the
\* keypair, looking up the signer, signing), the caller gets that failure
\* unchanged: a secret-loading JupiterValidationError with its message and
\* the name of the variable as its field, and any other failure as itself,
\* not as a JupiterValidationError of the field "transaction".
DecodesToTransaction(text) ==
    /\ text.t = "str"
    /\ "b64" \in DOMAIN text
    /\ ~FromBytesRaises(text.b64)
C25_InnerFailureUnchanged ==
    (Done /\ call.op = "_sign_base64_transaction"
          /\ DecodesToTransaction(call.arg.transaction_base64)) =>
        LET loaded == LoadPrivateKeyBytes(env, client.private_key_env_var)
            inner == SignVersionedTransaction(env, client.private_key_env_var,
                                              FromBytes(call.arg.transaction_base64.b64))
        IN  /\ loaded.kind = "raise" =>
                   /\ result = loaded
                   /\ result.exc.field = Str(client.private_key_env_var)
            /\ inner.kind = "raise" =>
                   /\ result = inner
                   /\ ~(IsValidationError(result) /\ result.exc.field = Str("transaction"))

\* C26: when _sign_base64_transaction rejects a non-empty string, the
\* message is "Invalid base64 transaction format" exactly when base64
\* decoding failed, and "Failed to decode/parse transaction" exactly when
\* the string decoded and the decoded bytes are no transaction, whatever
\* the wording of the underlying exception.
FailsAtBase64Layer(text) == B64Decode(text).kind = "raise"
FailsAtStructuralLayer(text) ==
    /\ B64Decode(text).kind = "return"
    /\ B64Decode(text).value # EmptyBytes
    /\ FromBytesRaises(B64Decode(text).value)
C26_MessageNamesFailingLayer ==
    (Done /\ call.op = "_sign_base64_transaction"
          /\ call.arg.transaction_base64.t = "str"
          /\ Truthy(call.arg.transaction_base64)
          /\ result.kind = "raise") =>
        LET text == call.arg.transaction_base64
            message == result.exc.message.text
        IN  /\ (message = "Invalid base64 transaction format: {}") <=> FailsAtBase64Layer(text)
            /\ (message = "Failed to decode/parse transaction: {}") <=> FailsAtStructuralLayer(text)

\* C27: the amount of an order request is a positive integer: no request
\* with a zero or negative amount exists, so none is sent to the order
\* endpoint.
C27_OrderAmountIsPositive ==
    (call.op \in {"order", "order_and_execute"}) =>
        /\ call.arg.request.amount.t = "int"
        /\ call.arg.request.amount.n > 0
        /\ sent[1].params["amount"].n > 0

\* C28: get_public_key_async, awaited on the synchronous and on the
\* asynchronous client, yields what get_public_key yields for the
\* configured secret: the base58 text of its public key.
C28_AsyncWrapperYieldsPublicKey ==
    (Done /\ call.op = "get_public_key_async") =>
        /\ result = GetPublicKey(env, client.private_key_env_var)
        /\ env = WalletEnv => result = Return(Base58Str(WalletPubkey))

\* C29: a 2xx response whose body is not JSON ends in JupiterNetworkError
\* whose original_error is the exception of the parser; it is never a
\* JupiterValidationError or a JupiterAPIError and never a returned value.
Unparsable2xx ==
    /\ Responded
    /\ 200 <= LastStatus /\ LastStatus <= 299
    /\ ~LastReceived.response.body.parses
C29_UnparsableSuccessIsNetworkError ==
    (Done /\ call.op \in PipelineOps /\ Unparsable2xx) =>
        /\ result.kind = "raise"
        /\ result.exc.type = "JupiterNetworkError"
        /\ result.exc.original_error = JSONDecodeError
        /\ ~IsInstance(result.exc.type, "JupiterAPIError")
        /\ ~IsInstance(result.exc.type, "JupiterValidationError")

\* balances received a 201 whose body is not JSON.
C29_Witness ==
    /\ Done /\ call.op = "balances"
    /\ Unparsable2xx /\ LastStatus = 201
    /\ Raised("JupiterNetworkError")

\* C30: the steps of order_and_execute occur in one order: the order GET,
\* its successful response, the validation of the order response, the
\* decoding of the transaction, the reading of the secret, the signing and
\* the execute POST.  When the order stage fails or the order response is
\* not a mapping with a requestId and a non-empty string transaction, the
\* secret is never read and no POST is issued; and the method followed
\* step by step ends as the method taken as a whole.
StepOrder ==
    <<"order_get", "order_ok", "validated", "decoded", "secret_read", "signed", "execute_post">>
IsPrefix(s, t) == Len(s) <= Len(t) /\ SubSeq(t, 1, Len(s)) = s
Took(step) == \E i \in 1..Len(trace) : trace[i] = step
OrderStageFailed ==
    /\ Len(received) >= 1
    /\ SyncOutcome(received[1]).kind = "raise"
OrderResponseInvalid ==
    /\ Len(received) >= 1
    /\ SyncOutcome(received[1]).kind = "return"
    /\ LET body == received[1].response.body.json
       IN  \/ body.t # "dict"
           \/ "requestId" \notin DOMAIN body.d
           \/ "transaction" \notin DOMAIN body.d
           \/ body.d["transaction"].t # "str"
           \/ body.d["transaction"] = Str("")
StepsInOrder ==
    /\ IsPrefix(trace, StepOrder)
    /\ Took("execute_post") <=> PostsSent # {}
    /\ (Done /\ (OrderStageFailed \/ OrderResponseInvalid)) =>
           /\ ~Took("secret_read")
           /\ PostsSent = {}
           /\ result.kind = "raise"
    /\ Done =>
           LET whole == SyncRun(client, env, call, received)
           IN  whole.pc = "done" /\ result = whole.result /\ sent = whole.sent
C30_PipelineStepsInOrder ==
    /\ []StepsInOrder
    /\ [][(Took("secret_read")' /\ ~Took("secret_read")) =>
              (pc = "sign" /\ Took("decoded"))]_vars

\* The whole pipeline ran: every step was taken and the execute response
\* was returned.
C30_Witness ==
    /\ Done
    /\ trace = StepOrder
    /\ Len(sent) = 2 /\ sent[2].method = "POST"
    /\ result.kind = "return"

====
